---- MODULE Spec2Model ----
\* WPIS: payment-intent lifecycle, Arbitrum verification engine, SQLite store
\* and the verifier service (on-demand verify, interval sweep, per-intent lock).
EXTENDS Integers, Sequences, FiniteSets, TLC

\* ------------------------------------------------------------------ bounds
MaxIntents == 2
MaxTasks == 2
MaxTime == 1
MaxDirect == 1
MaxChainBlock == 2

\* ------------------------------------------------------- program constants
DEFAULT_ARBITRUM_SEPOLIA_CHAIN_ID == 421614
ARBITRUM_ONE_CHAIN_ID == 42161
DEFAULT_MIN_CONFIRMATIONS == 2
ERC20_LOG_CHUNK_SIZE == 500
\* the null of `number | null` columns and the undefined of optional numbers
NullInt == -999
\* the null / undefined of optional strings
Null == "null"
\* the number NaN: every comparison with it is false
NaN == -997

\* `a < b` on JavaScript numbers
LessThan(a, b) == a # NaN /\ b # NaN /\ a < b

\* Number.isInteger on the numbers the model uses
IsInteger(n) == n # NaN

SupportedChainIds == {DEFAULT_ARBITRUM_SEPOLIA_CHAIN_ID, ARBITRUM_ONE_CHAIN_ID}

\* ------------------------------------------------------------ core: state.ts
Statuses == {"PENDING", "DETECTED", "CONFIRMED", "EXPIRED", "FAILED"}

allowedTransitions ==
  [s \in Statuses |->
     CASE s = "PENDING" -> <<"DETECTED", "CONFIRMED", "EXPIRED", "FAILED">>
       [] s = "DETECTED" -> <<"CONFIRMED", "EXPIRED", "FAILED">>
       [] OTHER -> <<>>]

\* Array.prototype.includes
Includes(seq, x) == \E i \in 1..Len(seq) : seq[i] = x

\* canTransition that also accepts from = to
canTransitionReflexive(from, to) == from = to \/ Includes(allowedTransitions[from], to)

canTransition(from, to) == Includes(allowedTransitions[from], to)

\* a thrown WpisError is the record [threw |-> TRUE, code |-> ...]
transitionStatus(from, to) ==
  IF ~canTransition(from, to)
    THEN [threw |-> TRUE, code |-> "VALIDATION_ERROR", value |-> Null]
    ELSE [threw |-> FALSE, code |-> Null, value |-> to]

\* ------------------------------------------------------- core: expiration.ts
\* isExpired with a strict comparison
isExpiredStrict(expiresAt, nowv) == expiresAt < nowv

isExpired(expiresAt, nowv) == expiresAt <= nowv

\* an intent that never expires
isIntentExpiredNever(intent, nowv) == FALSE

isIntentExpired(intent, nowv) == isExpired(intent.expiresAt, nowv)

\* ------------------------------------------------------ adapter: helpers
\* CAIP-2 id `eip155:${n}`
Caip2(n) == <<"eip155", n>>

\* addresses: two accounts, each in a lower-case and a checksummed spelling
Addresses == {"0xaa", "0xAA", "0xbb", "0xBB", "0xcc", "0xCC"}

\* viem getAddress: the checksummed spelling of an address
normalizeAddress(a) ==
  CASE a \in {"0xaa", "0xAA"} -> "0xAA"
    [] a \in {"0xbb", "0xBB"} -> "0xBB"
    [] a \in {"0xcc", "0xCC"} -> "0xCC"
    [] OTHER -> a

\* amount strings of stored intents and their BigInt value
toBigInt(amount) ==
  CASE amount = "1" -> 1
    [] amount = "2" -> 2
    [] amount = "3" -> 3
    [] OTHER -> 0

\* computeScanRange without a floor: the scan reaches back to block 0
computeScanRangeUnbounded(currentBlock, scanBlocks) ==
  [fromBlock |-> 0, toBlock |-> currentBlock]

computeScanRange(currentBlock, scanBlocks) ==
  [fromBlock |-> IF currentBlock > scanBlocks THEN currentBlock - scanBlocks ELSE 0,
   toBlock |-> currentBlock]

buildErc20TransferLogQuery(contractAddress, recipient, fromBlock, toBlock) ==
  [address |-> contractAddress, to |-> recipient, fromBlock |-> fromBlock, toBlock |-> toBlock]

\* a VerificationResult; absent optional fields are Null / NullInt
VR(status, txHash, confirmations, reason, errorCode) ==
  [status |-> status, txHash |-> txHash, confirmations |-> confirmations,
   reason |-> reason, errorCode |-> errorCode]

\* the settled value of an async call: a returned result or a rejection,
\* with the chain-client calls it made
Returned(result, calls) == [threw |-> FALSE, result |-> result, calls |-> calls]
Rejected(calls) ==
  [threw |-> TRUE, result |-> VR("FAILED", Null, NullInt, "thrown", Null), calls |-> calls]

\* ------------------------------------------------------ adapter: chain client
\* EvmClient.getBlock: the transactions of block n, or a rejection
ClientGetBlock(cl, n) ==
  IF n \in cl.blockErr \/ n + 1 > Len(cl.blocks)
    THEN [ok |-> FALSE, transactions |-> <<>>]
    ELSE [ok |-> TRUE, transactions |-> cl.blocks[n + 1]]

\* EvmClient.getLogs of a node that answers the filter it is given
ClientGetLogs(cl, query) ==
  SelectSeq(cl.logs, LAMBDA l :
     /\ l.address = query.address
     /\ l.to # Null => normalizeAddress(l.to) = query.to
     /\ l.blockNumber # NullInt =>
          (l.blockNumber >= query.fromBlock /\ l.blockNumber <= query.toBlock))

\* Array.prototype.find: of the indices whose element satisfies the callback,
\* the first one; 0 if there is none
FirstIndex(hits) == IF hits = {} THEN 0 ELSE CHOOSE i \in hits : \A j \in hits : i <= j

\* one chain-client call: the method and the block range it names
Call(op, from, to) == [op |-> op, from |-> from, to |-> to]

\* ------------------------------------------------------ adapter: verifyNative
NoDetected == [hash |-> Null, confirmations |-> NullInt]

\* the callback of verifyNative without the comparison of the value
NativeCandidateMatchesAnyValue(candidate, recipient, minimumAmount) ==
  IF candidate.to = Null \/ candidate.blockNumber = NullInt
    THEN FALSE
    ELSE normalizeAddress(candidate.to) = recipient

\* the callback with a test for the exact amount
NativeCandidateMatchesExact(candidate, recipient, minimumAmount) ==
  IF candidate.to = Null \/ candidate.blockNumber = NullInt
    THEN FALSE
    ELSE normalizeAddress(candidate.to) = recipient /\ candidate.value = minimumAmount

\* the callback of block.transactions.find in verifyNative
NativeCandidateMatches(candidate, recipient, minimumAmount) ==
  IF candidate.to = Null \/ candidate.blockNumber = NullInt
    THEN FALSE
    ELSE normalizeAddress(candidate.to) = recipient /\ candidate.value >= minimumAmount

\* the value of `detected` after the loop of verifyNative, and the calls made
ScanResult(threw, detected, calls) == [threw |-> threw, detected |-> detected, calls |-> calls]

\* the for loop of verifyNative, from blockNumber down to fromBlock;
\* ScanBlock is one iteration on the block the client answered
RECURSIVE ScanNative(_, _, _, _, _, _, _)
RECURSIVE ScanBlock(_, _, _, _, _, _, _, _)
\* an iteration that reads the block below before it leaves the loop with a
\* match
ScanBlockPastMatch(cl, recipient, minimumAmount, currentBlock, fromBlock, blockNumber, calls, block) ==
  LET i == FirstIndex({k \in 1..Len(block.transactions) :
                         NativeCandidateMatches(block.transactions[k], recipient,
                                                minimumAmount)})
  IN IF ~block.ok
       THEN ScanResult(TRUE, NoDetected, calls)
     ELSE IF i # 0 /\ block.transactions[i].blockNumber # NullInt
       THEN ScanResult(FALSE,
                       [hash |-> block.transactions[i].hash,
                        confirmations |->
                          currentBlock - block.transactions[i].blockNumber + 1],
                       IF blockNumber > fromBlock
                         THEN Append(calls, Call("getBlock", blockNumber - 1, blockNumber - 1))
                         ELSE calls)
     ELSE IF blockNumber = 0
       THEN ScanResult(FALSE, NoDetected, calls)
     ELSE ScanNative(cl, recipient, minimumAmount, currentBlock, fromBlock,
                     blockNumber - 1, calls)

ScanNative(cl, recipient, minimumAmount, currentBlock, fromBlock, blockNumber, calls) ==
  IF ~(blockNumber >= fromBlock)
    THEN ScanResult(FALSE, NoDetected, calls)
    ELSE ScanBlock(cl, recipient, minimumAmount, currentBlock, fromBlock, blockNumber,
                   Append(calls, Call("getBlock", blockNumber, blockNumber)),
                   ClientGetBlock(cl, blockNumber))

ScanBlock(cl, recipient, minimumAmount, currentBlock, fromBlock, blockNumber, calls, block) ==
  LET i == FirstIndex({k \in 1..Len(block.transactions) :
                         NativeCandidateMatches(block.transactions[k], recipient,
                                                minimumAmount)})
  IN IF ~block.ok
       THEN ScanResult(TRUE, NoDetected, calls)
     ELSE IF i # 0 /\ block.transactions[i].blockNumber # NullInt
       THEN ScanResult(FALSE,
                       [hash |-> block.transactions[i].hash,
                        confirmations |->
                          currentBlock - block.transactions[i].blockNumber + 1],
                       calls)
     ELSE IF blockNumber = 0
       THEN ScanResult(FALSE, NoDetected, calls)
     ELSE ScanNative(cl, recipient, minimumAmount, currentBlock, fromBlock,
                     blockNumber - 1, calls)

\* the classification with a strict comparison
ClassifyStrict(intent, hash, confirmations) ==
  IF confirmations > intent.confirmationPolicy.minConfirmations
    THEN VR("CONFIRMED", hash, confirmations, Null, Null)
    ELSE VR("DETECTED", hash, confirmations, "confirmation policy not yet met",
            "CONFIRMATION_PENDING")

\* the classification shared by verifyNative and verifyErc20
Classify(intent, hash, confirmations) ==
  IF confirmations >= intent.confirmationPolicy.minConfirmations
    THEN VR("CONFIRMED", hash, confirmations, Null, Null)
    ELSE VR("DETECTED", hash, confirmations, "confirmation policy not yet met",
            "CONFIRMATION_PENDING")

\* verifyNative after the loop
NativeResult(intent, scan) ==
  IF scan.threw THEN Rejected(scan.calls)
  ELSE IF scan.detected = NoDetected
    THEN Returned(VR("PENDING", Null, NullInt,
                     "matching transaction not found in scan range", Null), scan.calls)
  ELSE Returned(Classify(intent, scan.detected.hash, scan.detected.confirmations),
                scan.calls)

verifyNative(cl, intent, currentBlock, fromBlock, calls) ==
  NativeResult(intent,
               ScanNative(cl, normalizeAddress(intent.recipient), toBigInt(intent.amount),
                          currentBlock, fromBlock, currentBlock, calls))

\* ------------------------------------------------------ adapter: verifyErc20
\* the DEBUG_WPIS chunk loop: getLogs over sub-ranges of ERC20_LOG_CHUNK_SIZE;
\* catching = TRUE is the loop inside the getLogs catch block
RECURSIVE ChunkLogs(_, _, _, _, _)
ChunkLogs(cl, chunkFrom, currentBlock, calls, catching) ==
  IF ~(chunkFrom <= currentBlock)
    THEN [threw |-> FALSE, calls |-> calls]
    ELSE
      LET chunkTo == IF chunkFrom + ERC20_LOG_CHUNK_SIZE <= currentBlock
                       THEN chunkFrom + ERC20_LOG_CHUNK_SIZE ELSE currentBlock
          calls2 == Append(calls, Call("getLogs", chunkFrom, chunkTo))
      IN IF cl.chunkErr /\ ~catching
           THEN [threw |-> TRUE, calls |-> calls2]
         ELSE IF chunkTo = currentBlock
           THEN [threw |-> FALSE, calls |-> calls2]
         ELSE ChunkLogs(cl, chunkTo + 1, currentBlock, calls2, catching)

NoChunks(calls) == [threw |-> FALSE, calls |-> calls]

\* the callback of verifyErc20 without the comparison of the value
Erc20LogMatchesAnyValue(entry, recipient, minimumAmount) ==
  /\ entry.blockNumber # NullInt
  /\ entry.value # NullInt
  /\ entry.to # Null
  /\ normalizeAddress(entry.to) = recipient

\* the callback of logs.find in verifyErc20
Erc20LogMatches(entry, recipient, minimumAmount) ==
  LET logRecipient == IF entry.to # Null THEN normalizeAddress(entry.to) ELSE Null
  IN /\ entry.blockNumber # NullInt
     /\ entry.value # NullInt
     /\ logRecipient = recipient
     /\ entry.value >= minimumAmount

\* verifyErc20 in the catch block of getLogs, after the chunk diagnostics
Erc20GetLogsFailed(isRangeLimit, chunks) ==
  IF isRangeLimit
    THEN Returned(VR("FAILED", Null, NullInt, "rpc eth_getLogs range limit encountered",
                     "RPC_ERROR"), chunks.calls)
    ELSE Rejected(chunks.calls)

\* verifyErc20 from logs.find on, m being the index of the match (0: none)
Erc20Select(intent, currentBlock, logs, chunks, m) ==
  IF chunks.threw THEN Rejected(chunks.calls)
  ELSE IF m = 0 \/ logs[m].blockNumber = NullInt \/ logs[m].transactionHash = Null
    THEN Returned(VR("PENDING", Null, NullInt, "matching transfer not found in scan range",
                     Null), chunks.calls)
  ELSE Returned(Classify(intent, logs[m].transactionHash,
                         currentBlock - logs[m].blockNumber + 1), chunks.calls)

\* verifyErc20 once getLogs has answered with logs
Erc20Logs(cl, debug, intent, currentBlock, fromBlock, calls, logs) ==
  Erc20Select(intent, currentBlock, logs,
              IF Len(logs) = 0 /\ debug
                THEN ChunkLogs(cl, fromBlock, currentBlock, calls, FALSE)
                ELSE NoChunks(calls),
              FirstIndex({k \in 1..Len(logs) :
                            Erc20LogMatches(logs[k], normalizeAddress(intent.recipient),
                                            toBigInt(intent.amount))}))

verifyErc20(cl, debug, intent, currentBlock, fromBlock, calls) ==
  IF intent.asset.contractAddress = Null
    THEN Returned(VR("FAILED", Null, NullInt, "missing erc20 contract address",
                     "VALIDATION_ERROR"), calls)
    ELSE
      LET query == buildErc20TransferLogQuery(normalizeAddress(intent.asset.contractAddress),
                                              normalizeAddress(intent.recipient),
                                              fromBlock, currentBlock)
          calls2 == Append(calls, Call("getLogs", query.fromBlock, query.toBlock))
      IN IF cl.logsErr # "none"
           THEN Erc20GetLogsFailed(cl.logsErr = "range",
                                   IF cl.logsErr = "range" /\ debug
                                     THEN ChunkLogs(cl, fromBlock, currentBlock, calls2, TRUE)
                                     ELSE NoChunks(calls2))
           ELSE Erc20Logs(cl, debug, intent, currentBlock, fromBlock, calls2,
                          ClientGetLogs(cl, query))

\* ------------------------------------------------------ adapter: verify
\* the chain id the client's answer is compared with in verify
RpcChainIdExpected(adapter) == DEFAULT_ARBITRUM_SEPOLIA_CHAIN_ID

\* the try block of verify after the client answered getChainId and
\* getBlockNumber; `return this.verifyNative(...)` is not awaited, so a
\* rejection of the scan is not caught by the catch block of verify
VerifyScan(adapter, intent, cl, calls) ==
  LET latestBlock == cl.blockNumber
      scanRange == computeScanRange(latestBlock, adapter.scanBlocks)
  IN IF intent.asset.type = "native"
       THEN verifyNative(cl, intent, latestBlock, scanRange.fromBlock, calls)
       ELSE verifyErc20(cl, adapter.debug, intent, latestBlock, scanRange.fromBlock, calls)

\* an RPC failure reported without its error code
RpcErrorBare(calls) == Returned(VR("FAILED", Null, NullInt, "rpc verification failed", Null), calls)

RpcError(calls) ==
  Returned(VR("FAILED", Null, NullInt, "rpc verification failed", "RPC_ERROR"), calls)

\* verify that looks at the expiry before the intent's chain
verifyExpiryFirst(adapter, intent, nowv, cl) ==
  IF isIntentExpired(intent, nowv)
    THEN Returned(VR("EXPIRED", Null, NullInt, "intent expired", "EXPIRED_ERROR"), <<>>)
  ELSE IF intent.chainId # Caip2(adapter.expectedChainId)
    THEN Returned(VR("FAILED", Null, NullInt, "intent chain mismatch", "CHAIN_MISMATCH"), <<>>)
  ELSE
    LET c1 == <<Call("getChainId", NullInt, NullInt)>>
        c2 == Append(c1, Call("getBlockNumber", NullInt, NullInt))
    IN IF cl.chainIdErr THEN RpcError(c1)
       ELSE IF cl.chainId # RpcChainIdExpected(adapter)
         THEN Returned(VR("FAILED", Null, NullInt, "rpc chain mismatch", "CHAIN_MISMATCH"), c1)
       ELSE IF cl.blockNumberErr THEN RpcError(c2)
       ELSE VerifyScan(adapter, intent, cl, c2)

\* verify that looks at the expiry only when the scan found no payment
verifyExpiryLast(adapter, intent, nowv, cl) ==
  IF intent.chainId # Caip2(adapter.expectedChainId)
    THEN Returned(VR("FAILED", Null, NullInt, "intent chain mismatch", "CHAIN_MISMATCH"), <<>>)
  ELSE
    LET c1 == <<Call("getChainId", NullInt, NullInt)>>
        c2 == Append(c1, Call("getBlockNumber", NullInt, NullInt))
        scanned ==
          IF cl.chainIdErr THEN RpcError(c1)
          ELSE IF cl.chainId # RpcChainIdExpected(adapter)
            THEN Returned(VR("FAILED", Null, NullInt, "rpc chain mismatch", "CHAIN_MISMATCH"), c1)
          ELSE IF cl.blockNumberErr THEN RpcError(c2)
          ELSE VerifyScan(adapter, intent, cl, c2)
    IN IF ~scanned.threw /\ scanned.result.status = "PENDING" /\ isIntentExpired(intent, nowv)
         THEN Returned(VR("EXPIRED", Null, NullInt, "intent expired", "EXPIRED_ERROR"),
                       scanned.calls)
         ELSE scanned

\* ArbitrumAdapter.verify
verify(adapter, intent, nowv, cl) ==
  IF intent.chainId # Caip2(adapter.expectedChainId)
    THEN Returned(VR("FAILED", Null, NullInt, "intent chain mismatch", "CHAIN_MISMATCH"), <<>>)
  ELSE IF isIntentExpired(intent, nowv)
    THEN Returned(VR("EXPIRED", Null, NullInt, "intent expired", "EXPIRED_ERROR"), <<>>)
  ELSE
    LET c1 == <<Call("getChainId", NullInt, NullInt)>>
        c2 == Append(c1, Call("getBlockNumber", NullInt, NullInt))
    IN IF cl.chainIdErr THEN RpcError(c1)
       ELSE IF cl.chainId # RpcChainIdExpected(adapter)
         THEN Returned(VR("FAILED", Null, NullInt, "rpc chain mismatch", "CHAIN_MISMATCH"), c1)
       ELSE IF cl.blockNumberErr THEN RpcError(c2)
       ELSE VerifyScan(adapter, intent, cl, c2)

\* getRpcHealth that reports a connection whatever the client does
getRpcHealthAlwaysConnected(cl) ==
  [rpcConnected |-> TRUE, chainId |-> IF cl.chainIdErr THEN NullInt ELSE cl.chainId]

\* ArbitrumAdapter.getRpcHealth: the network id the client answers, or no
\* connection when the query fails
getRpcHealth(cl) ==
  IF cl.chainIdErr
    THEN [rpcConnected |-> FALSE, chainId |-> NullInt]
    ELSE [rpcConnected |-> TRUE, chainId |-> cl.chainId]

\* the report of GET /health with this rpc health; ping is the answer of
\* VerifierDb.ping
HealthReport(ping, rpcHealth, expectedChainId) ==
  LET chainId == IF rpcHealth.chainId # NullInt THEN rpcHealth.chainId ELSE expectedChainId
      rpcConnected == rpcHealth.rpcConnected /\ chainId = expectedChainId
  IN [answered |-> TRUE, code |-> IF ping /\ rpcConnected THEN 200 ELSE 503,
      ok |-> ping /\ rpcConnected, chainId |-> chainId, rpcConnected |-> rpcConnected,
      dbStatus |-> ping]

\* no report: the handler threw before it answered
NoHealth ==
  [answered |-> FALSE, code |-> 0, ok |-> FALSE, chainId |-> NullInt,
   rpcConnected |-> FALSE, dbStatus |-> FALSE]

\* GET /health; dbPing is "ok" when the store answers its ping and "throws"
\* when the query fails, which ends the handler without a report
health(dbPing, cl, expectedChainId) ==
  IF dbPing = "throws" THEN NoHealth
  ELSE HealthReport(TRUE, getRpcHealth(cl), expectedChainId)

\* ------------------------------------------------------ core: validation.ts
\* the time value of `new Date(s)` for a string that is no date (NaN)
InvalidDate == -998

isValidEvmAddress(value) == value \in Addresses

\* /^\d+$/ on the amount strings the model uses
DigitStrings == {"0", "1", "2", "3"}

isPositiveIntegerString(value) ==
  IF value \notin DigitStrings THEN FALSE ELSE toBigInt(value) > 0

\* String.prototype.trim on the strings the model uses
Trim(str) == IF str \in {"", " "} THEN "" ELSE str

\* the message-independent outcome of a validation: "ok" or the error code
validateAsset(asset) ==
  IF Trim(asset.symbol) = "" THEN "VALIDATION_ERROR"
  ELSE IF LessThan(asset.decimals, 0) \/ ~IsInteger(asset.decimals) THEN "VALIDATION_ERROR"
  ELSE IF asset.type = "erc20" /\ asset.contractAddress = Null THEN "VALIDATION_ERROR"
  ELSE IF asset.type = "erc20" /\ ~isValidEvmAddress(asset.contractAddress)
    THEN "VALIDATION_ERROR"
  ELSE "ok"

validateCreateIntentInput(input, nowv) ==
  IF validateAsset(input.asset) # "ok" THEN "VALIDATION_ERROR"
  ELSE IF Trim(input.reference) = "" THEN "VALIDATION_ERROR"
  ELSE IF ~isValidEvmAddress(input.recipient) THEN "VALIDATION_ERROR"
  ELSE IF ~isPositiveIntegerString(input.amount) THEN "VALIDATION_ERROR"
  ELSE IF input.expiresAt = InvalidDate THEN "VALIDATION_ERROR"
  ELSE IF input.expiresAt <= nowv THEN "VALIDATION_ERROR"
  ELSE IF input.minConfirmations # NullInt /\ LessThan(input.minConfirmations, 0)
    THEN "VALIDATION_ERROR"
  ELSE "ok"

\* ------------------------------------------------------ verifier: db.ts
\* rows of table intents, indexed by id (ids are 1, 2, ... in creation order)
RowIds(rws) == 1..Len(rws)

NoStored == [id |-> 0]

getIntent(rws, id) ==
  IF id \notin RowIds(rws) THEN NoStored
  ELSE [id |-> id, intent |-> rws[id].json, status |-> rws[id].status,
        txHash |-> rws[id].tx_hash, confirmations |-> rws[id].confirmations,
        lastCheckedAt |-> rws[id].last_checked_at]

\* the ids of listPendingIntents, as a set; the SELECT has no ORDER BY
PendingIds(rws) == {id \in RowIds(rws) : rws[id].status \in {"PENDING", "DETECTED"}}

\* the orders in which a SELECT without ORDER BY may return the ids of S
Orderings(S) ==
  {q \in [1..Cardinality(S) -> S] : \A i, j \in 1..Cardinality(S) : i # j => q[i] # q[j]}

listPendingIntents(rws) == Orderings(PendingIds(rws))

\* findByReference that finds nothing
findByReferenceNever(rws, reference) == 0

\* the id of the first stored intent with this reference, 0 if none
findByReference(rws, reference) ==
  FirstIndex({i \in RowIds(rws) : rws[i].json.reference = reference})

DbFaults == {"none", "write"}

\* JSON.parse(JSON.stringify(n)) of a number: NaN has no JSON text, it is
\* written as null
JsonNumber(n) == IF n = NaN THEN NullInt ELSE n

\* JSON.parse(JSON.stringify(intent)): strings and finite numbers come back
\* as they were, an absent contractAddress stays absent
JsonIntent(intent) ==
  [intent EXCEPT !.asset.decimals = JsonNumber(@),
                 !.confirmationPolicy.minConfirmations = JsonNumber(@)]

\* addEvent rows of one intent; the columns id and created_at and the payload's
\* `at`, which the service never reads, are left out
Event(type, payload, nowv) == [type |-> type, payload |-> payload]

\* createIntent that starts the log of every intent afresh
DbCreateIntentFresh(rws, evs, intent, nowv, fault) ==
  IF fault = "write"
    THEN [threw |-> TRUE, rows |-> rws, events |-> evs]
    ELSE [threw |-> FALSE,
          rows |-> Append(rws, [json |-> JsonIntent(intent), status |-> intent.status,
                                tx_hash |-> Null,
                                confirmations |-> NullInt, last_checked_at |-> NullInt]),
          events |-> [i \in 1..(Len(evs) + 1) |->
                        <<Event("INTENT_CREATED", [status |-> intent.status], nowv)>>]]

\* VerifierDb.createIntent; fault = "write" is the INSERT throwing
DbCreateIntent(rws, evs, intent, nowv, fault) ==
  IF fault = "write"
    THEN [threw |-> TRUE, rows |-> rws, events |-> evs]
    ELSE [threw |-> FALSE,
          rows |-> Append(rws, [json |-> JsonIntent(intent), status |-> intent.status,
                                tx_hash |-> Null,
                                confirmations |-> NullInt, last_checked_at |-> NullInt]),
          events |-> Append(evs, <<Event("INTENT_CREATED",
                                         [status |-> intent.status], nowv)>>)]

\* updateIntentStatus without its transition guard
CanMoveToStatusUnguarded(current, status) == TRUE

\* the guard `current.status === status || canTransition(current.status, status)`
CanMoveToStatus(current, status) == current = status \/ canTransition(current, status)

\* updateIntentStatus that reports a change whenever it writes
StatusChangedAlways(current, status) == TRUE

\* `const statusChanged = current.status !== status`
StatusChanged(current, status) == current # status

\* a merge that stores the verification's txHash as it comes, absent or not
NextTxHashOverwrite(verification, current) == verification.txHash

\* `const nextTxHash = verification.txHash ?? current.txHash`
NextTxHash(verification, current) ==
  IF verification.txHash # Null THEN verification.txHash ELSE current.txHash

\* VerifierDb.updateIntentStatus; fault = "write" is the UPDATE throwing
updateIntentStatus(rws, evs, id, status, verification, nowv, fault) ==
  LET current == getIntent(rws, id)
      unchanged == [threw |-> FALSE, changed |-> FALSE, rows |-> rws, events |-> evs]
  IN IF current = NoStored THEN unchanged
     ELSE IF ~CanMoveToStatus(current.status, status) THEN unchanged
     ELSE IF fault = "write" THEN [unchanged EXCEPT !.threw = TRUE]
     ELSE
       LET statusChanged == StatusChanged(current.status, status)
           nextStatus == IF statusChanged THEN status ELSE current.status
           updatedIntent == IF statusChanged
                              THEN [current.intent EXCEPT !.status = nextStatus]
                              ELSE current.intent
           nextTxHash == NextTxHash(verification, current)
           nextConfirmations == IF verification.confirmations # NullInt
                                  THEN verification.confirmations ELSE current.confirmations
           payload == [verification EXCEPT !.status = nextStatus, !.txHash = nextTxHash,
                                           !.confirmations = nextConfirmations]
       IN [threw |-> FALSE, changed |-> statusChanged,
           rows |-> [rws EXCEPT ![id] = [json |-> JsonIntent(updatedIntent),
                                         status |-> nextStatus,
                                         tx_hash |-> nextTxHash,
                                         confirmations |-> nextConfirmations,
                                         last_checked_at |-> nowv]],
           events |-> [evs EXCEPT ![id] = Append(@, Event("INTENT_VERIFIED", payload, nowv))]]

\* ------------------------------------------------------ adapter: createIntent
\* createIntent that marks the reference as used before it validates
CreateFailedMarked(code, message, seen, reference) ==
  [threw |-> TRUE, code |-> code, message |-> message, seen |-> seen \cup {reference},
   intent |-> NoStored]

\* a `throw new WpisError(code, message)` of createIntent: nothing was marked
CreateFailed(code, message, seen, reference) ==
  [threw |-> TRUE, code |-> code, message |-> message, seen |-> seen, intent |-> NoStored]

\* ArbitrumAdapter.createIntent; used is the injected isReferenceUsed
AdapterCreateIntent(adapter, input, id, nowv, used, seen) ==
  LET chainId == IF input.chainId # Null THEN input.chainId
                 ELSE Caip2(adapter.expectedChainId)
      fail(code, message) == CreateFailed(code, message, seen, input.reference)
  IN IF validateCreateIntentInput(input, nowv) # "ok"
       THEN fail("VALIDATION_ERROR", "invalid input")
     ELSE IF chainId # Caip2(adapter.expectedChainId)
       THEN fail("CHAIN_MISMATCH", "chainId must be the adapter's")
     ELSE IF used THEN fail("VALIDATION_ERROR", "reference must be unique")
     ELSE IF input.expiresAt <= nowv
       THEN fail("VALIDATION_ERROR", "expiresAt must be greater than current time")
     ELSE [threw |-> FALSE, code |-> Null, message |-> Null,
           seen |-> seen \cup {input.reference},
           intent |-> [id |-> id, createdAt |-> nowv, expiresAt |-> input.expiresAt,
                       chainId |-> chainId, asset |-> input.asset,
                       recipient |-> input.recipient, amount |-> input.amount,
                       reference |-> input.reference,
                       confirmationPolicy |->
                         [minConfirmations |->
                            IF input.minConfirmations # NullInt
                              THEN input.minConfirmations
                              ELSE DEFAULT_MIN_CONFIRMATIONS],
                       status |-> "PENDING"]]

\* ------------------------------------------------------ verifier: server.ts
terminalStatuses == <<"CONFIRMED", "FAILED", "EXPIRED">>

\* resolveNextStatus that takes the verification's status as it comes
resolveNextStatusUnchecked(current, verification) == verification.status

resolveNextStatus(current, verification) ==
  IF Includes(terminalStatuses, current) THEN current
  ELSE IF current = verification.status THEN current
  ELSE IF ~canTransition(current, verification.status) THEN current
  ELSE verification.status

\* ================================================================ the service
VARIABLES
  now,               \* the clock read by Date.now() / new Date()
  adapter,           \* the adapter's configuration (expectedChainId, scanBlocks, debug)
  rows,              \* table intents
  events,            \* table events, per intent id
  seenReferences,    \* the adapter's fallback reference set
  verificationLocks, \* Map intentId -> in-flight task
  tasks,             \* the in-flight verifyIntent tasks
  nextTask,          \* identity of the next task
  calls,             \* POST /intents/:id/verify requests awaiting their task
  responses,         \* the responses sent by the last step, per request
  sweeps,            \* setInterval callbacks
  directs,           \* number of direct updateIntentStatus calls made
  fn                 \* last application of a pure function (pure specifications)

vars == <<now, adapter, rows, events, seenReferences, verificationLocks, tasks, nextTask,
          calls, responses, sweeps, directs, fn>>

MaxCalls == 2
MaxSweeps == 2
MaxActive == 2
ScanBlocks == 1

CallIds == 1..MaxCalls
SweepIds == 1..MaxSweeps
IntentIds == 1..MaxIntents

NoFn == [op |-> "none"]

\* the tasks a behaviour may start: more where the store is given and only
\* verifications run
MaxSweepTasks == 3
\* where time passes: the tasks that may start before the intents expire, and
\* after
MaxEarlyTasks == 1
MaxLateTasks == 4
TaskLimit ==
  IF fn.op = "sweep" THEN MaxSweepTasks
  ELSE IF fn.op = "expiry"
    THEN IF now < MaxTime THEN MaxEarlyTasks ELSE MaxEarlyTasks + MaxLateTasks
  ELSE MaxTasks

\* ------------------------------------------------------ environment inputs
ContractAddr == "0xCC"

Tx(hash, to, value, blockNumber) ==
  [hash |-> hash, to |-> to, value |-> value, blockNumber |-> blockNumber]

Log(hash, to, value, blockNumber, address) ==
  [transactionHash |-> hash, to |-> to, value |-> value, blockNumber |-> blockNumber,
   address |-> address]

\* a chain client: what it answers to each call
Client(chainId, chainIdErr, blockNumberErr, blocks, blockErr, logs, logsErr, chunkErr) ==
  [chainId |-> chainId, chainIdErr |-> chainIdErr, blockNumber |-> Len(blocks) - 1,
   blockNumberErr |-> blockNumberErr, blocks |-> blocks, blockErr |-> blockErr,
   logs |-> logs, logsErr |-> logsErr, chunkErr |-> chunkErr]

\* the clients the service meets: a payment of 2 to 0xAA (native and erc20) in
\* the latest block, one block deep, or absent; a wrong network; failing calls
ChainWithPaymentAt(b) ==
  [n \in 1..(MaxChainBlock + 1) |-> IF n = b + 1 THEN <<Tx("0xh1", "0xaa", 2, b)>> ELSE <<>>]

\* the blocks a payment may lie in: the latest, the one before, or none (-1)
PaymentBlocks == {MaxChainBlock, MaxChainBlock - 1, -1}

ServiceClients ==
  {Client(DEFAULT_ARBITRUM_SEPOLIA_CHAIN_ID, FALSE, FALSE, ChainWithPaymentAt(b), {},
          IF b >= 0 THEN <<Log("0xh2", "0xAA", 2, b, ContractAddr)>> ELSE <<>>, "none", FALSE) :
     b \in PaymentBlocks}
  \cup {Client(ARBITRUM_ONE_CHAIN_ID, FALSE, FALSE, ChainWithPaymentAt(-1), {},
               <<>>, "none", FALSE),
        Client(DEFAULT_ARBITRUM_SEPOLIA_CHAIN_ID, TRUE, FALSE, ChainWithPaymentAt(-1), {},
               <<>>, "none", FALSE),
        Client(DEFAULT_ARBITRUM_SEPOLIA_CHAIN_ID, FALSE, FALSE, ChainWithPaymentAt(-1),
               {MaxChainBlock}, <<>>, "other", FALSE)}

Asset(type, contractAddress) ==
  [symbol |-> IF type = "native" THEN "ETH" ELSE "USDC",
   decimals |-> IF type = "native" THEN 18 ELSE 6,
   type |-> type, contractAddress |-> contractAddress]

Input(chainId, asset, recipient, amount, reference, expiresAt, minConfirmations) ==
  [chainId |-> chainId, asset |-> asset, recipient |-> recipient, amount |-> amount,
   reference |-> reference, expiresAt |-> expiresAt, minConfirmations |-> minConfirmations]

\* the creation requests the service receives: valid native and erc20 ones,
\* and ones with an invalid date, a missing contract, a bad address, a zero
\* amount, another chain, negative decimals
ServiceInputs ==
  {Input(Null, Asset("native", Null), "0xaa", "2", "r1", 1, NullInt),
   Input(Null, Asset("native", Null), "0xAA", "1", "r1", InvalidDate, NullInt),
   Input(Caip2(DEFAULT_ARBITRUM_SEPOLIA_CHAIN_ID), Asset("erc20", ContractAddr), "0xaa", "2",
         "r2", 2, 1),
   Input(Null, Asset("erc20", Null), "0xaa", "2", "r2", 2, NullInt),
   Input(Null, Asset("native", Null), "bad-address", "2", "r2", 2, NullInt),
   Input(Null, Asset("native", Null), "0xaa", "0", "r2", 2, NullInt),
   Input(Caip2(ARBITRUM_ONE_CHAIN_ID), Asset("native", Null), "0xaa", "2", "r2", 2, NullInt),
   Input(Null, [Asset("native", Null) EXCEPT !.decimals = -1], "0xaa", "2", "r2", 2, NullInt)}

\* the verification metadata of direct updateIntentStatus calls
DirectResults ==
  {VR("PENDING", Null, NullInt, Null, Null), VR("CONFIRMED", "0xh9", 3, Null, Null)}

VerifierException == VR("FAILED", Null, NullInt, "verifier exception", Null)
IntentNotFound == VR("FAILED", Null, NullInt, "intent not found", Null)

\* ------------------------------------------------------ initial state
IdleCall == [state |-> "idle", intentId |-> 0, task |-> 0]
\* verifyError: the last iteration of the sweep ended in its catch block, which
\* wrote the log record intent.poll.verify_error
IdleSweep == [state |-> "idle", batch |-> <<>>, idx |-> 0, task |-> 0, verifyError |-> FALSE]

InitService ==
  /\ now = 0
  /\ rows = <<>>
  /\ events = <<>>
  /\ seenReferences = {}
  /\ verificationLocks = <<>>
  /\ tasks = <<>>
  /\ nextTask = 1
  /\ calls = [c \in CallIds |-> IdleCall]
  /\ responses = <<>>
  /\ sweeps = [s \in SweepIds |-> IdleSweep]
  /\ directs = 0

Init ==
  /\ InitService
  /\ adapter = [expectedChainId |-> DEFAULT_ARBITRUM_SEPOLIA_CHAIN_ID,
                scanBlocks |-> ScanBlocks, debug |-> FALSE]
  /\ fn = NoFn

\* ------------------------------------------------------ verifyIntent
Remove(f, k) == [x \in DOMAIN f \ {k} |-> f[x]]
Put(f, k, v) == [x \in DOMAIN f \cup {k} |-> IF x = k THEN v ELSE f[x]]

\* verifyIntent that never finds a running task
LockHeldNever(locks, intentId) == FALSE

\* `verificationLocks.get(intentId)` found a running task
LockHeld(locks, intentId) == intentId \in DOMAIN locks

\* verifyIntent whose caller awaits a task of its own
TaskOfFresh(intentId) == nextTask

\* the task a verifyIntent(intentId) call awaits: the running one or a new one
TaskOf(intentId) ==
  IF LockHeld(verificationLocks, intentId) THEN verificationLocks[intentId] ELSE nextTask

\* verifyIntent up to `await task`: join the running task, or start one (the
\* task reads the intent and calls adapter.verify, whose synchronous prefix
\* reads the clock) and register it in verificationLocks
VerifyIntentCall(intentId) ==
  IF LockHeld(verificationLocks, intentId)
    THEN UNCHANGED <<verificationLocks, tasks, nextTask>>
    ELSE
      /\ nextTask + directs <= TaskLimit
      /\ tasks' = Put(tasks, nextTask,
                      [intentId |-> intentId, beforeVerify |-> getIntent(rows, intentId),
                       now |-> now])
      /\ verificationLocks' = Put(verificationLocks, intentId, nextTask)
      /\ nextTask' = nextTask + 1

\* sweep s has resumed, or has just listed its batch, and its next
\* verifyIntent call is due: the call runs in the same turn of the event loop,
\* before any other request, timer or answer is handled
CallDue(s) ==
  /\ sweeps[s].state = "ready"
  /\ \/ LockHeld(verificationLocks, sweeps[s].batch[sweeps[s].idx])
     \/ nextTask + directs <= TaskLimit

\* the event loop is between turns: no continuation is waiting to run
TurnOver == \A s \in SweepIds : ~CallDue(s)

\* requests are anonymous: a new one takes the first free slot
FreeSlot(slots, c) ==
  /\ slots[c].state = "idle"
  /\ \A d \in DOMAIN slots : d < c => slots[d].state # "idle"

Response(kind, intentId, task, result) ==
  [kind |-> kind, intentId |-> intentId, task |-> task, result |-> result]

\* the number of requests and sweeps under way
Active ==
  Cardinality({c \in CallIds : calls[c].state # "idle"})
    + Cardinality({s \in SweepIds : sweeps[s].state # "idle"})

\* POST /intents/:id/verify, up to the await
TriggerVerify(c, id) ==
  /\ TurnOver
  /\ FreeSlot(calls, c)
  /\ Active < MaxActive
  /\ IF getIntent(rows, id) = NoStored
       THEN /\ responses' = Put(<<>>, c, Response("404", id, 0, IntentNotFound))
            /\ UNCHANGED <<calls, verificationLocks, tasks, nextTask>>
       ELSE /\ VerifyIntentCall(id)
            /\ calls' = [calls EXCEPT ![c] = [state |-> "waiting", intentId |-> id,
                                              task |-> TaskOf(id)]]
            /\ responses' = <<>>
  /\ UNCHANGED <<now, adapter, rows, events, seenReferences, sweeps, directs, fn>>

\* the settled task: rejected or resolved with result, and the store it leaves
TaskSettled(threw, result, rws, evs) ==
  [threw |-> threw, result |-> result, rows |-> rws, events |-> evs]

\* a task that returns the engine's result as it came
TaskPersistedRaw(v, nextStatus, upd) == IF upd.threw THEN TaskSettled(TRUE, v.result, rows, events) ELSE TaskSettled(FALSE, v.result, upd.rows, upd.events)

\* the task after `db.updateIntentStatus(current.id, nextStatus, result)`
TaskPersisted(v, nextStatus, upd) ==
  IF upd.threw THEN TaskSettled(TRUE, v.result, rows, events)
  ELSE TaskSettled(FALSE, [v.result EXCEPT !.status = nextStatus], upd.rows, upd.events)

\* the task after `await adapter.verify(...)` settled as v
TaskVerified(fault, v, current) ==
  IF v.threw THEN TaskSettled(TRUE, v.result, rows, events)
  ELSE IF current = NoStored THEN TaskSettled(FALSE, IntentNotFound, rows, events)
  ELSE TaskPersisted(v, resolveNextStatus(current.status, v.result),
                     updateIntentStatus(rows, events, current.id,
                                        resolveNextStatus(current.status, v.result),
                                        v.result, now, fault))

\* the body of a task from the settling of adapter.verify to its own settling
TaskBody(task, cl, fault) ==
  IF task.beforeVerify = NoStored THEN TaskSettled(FALSE, IntentNotFound, rows, events)
  ELSE TaskVerified(fault, verify(adapter, task.beforeVerify.intent, task.now, cl),
                    getIntent(rows, task.intentId))

\* the sweeps that await task t
AwaitingSweeps(t) == {s \in SweepIds : sweeps[s].state = "waiting" /\ sweeps[s].task = t}

Handled(db, threw) == [db |-> db, threw |-> threw]

HandlerJoin(s, upd, rest) ==
  Handled(rest.db, IF upd.threw THEN rest.threw \cup {s} ELSE rest.threw)

\* the catch blocks of the sweeps s..MaxSweeps that await task t, run in turn
\* on the store db = [rows, events]; hf[s] is the fault met by sweep s, and
\* the result names the sweeps whose catch block threw
\* sweeps whose catch block persists nothing
SweepHandlersSilent(s, t, intentId, hf, db) == Handled(db, {})

RECURSIVE SweepHandlers(_, _, _, _, _)
RECURSIVE HandlerStep(_, _, _, _, _)
SweepHandlers(s, t, intentId, hf, db) ==
  IF s > MaxSweeps THEN Handled(db, {})
  ELSE IF s \in AwaitingSweeps(t)
    THEN HandlerStep(s, t, intentId, hf,
                     updateIntentStatus(db.rows, db.events, intentId, "FAILED",
                                        VerifierException, now, hf[s]))
  ELSE SweepHandlers(s + 1, t, intentId, hf, db)

HandlerStep(s, t, intentId, hf, upd) ==
  HandlerJoin(s, upd, SweepHandlers(s + 1, t, intentId, hf,
                                    [rows |-> upd.rows, events |-> upd.events]))

\* the sweep after the await of its current intent: next intent, or the end
SweepAdvance(sw) ==
  IF sw.idx + 1 > Len(sw.batch) THEN IdleSweep
  ELSE [sw EXCEPT !.state = "ready", !.idx = sw.idx + 1, !.task = 0]

\* a finally block that leaves the entry in the table
ReleaseLockNever(locks, intentId) == locks

\* the release of the lock in the finally block of the task's starter
ReleaseLock(locks, intentId) == Remove(locks, intentId)

\* the task t has settled as body and the catch blocks have run: the lock is
\* released and every awaiting caller resumes
Resume(t, intentId, body, handled) ==
  /\ rows' = handled.db.rows
  /\ events' = handled.db.events
  /\ tasks' = Remove(tasks, t)
  /\ verificationLocks' = ReleaseLock(verificationLocks, intentId)
  /\ calls' = [c \in CallIds |->
                 IF calls[c].state = "waiting" /\ calls[c].task = t
                   THEN IdleCall ELSE calls[c]]
  /\ responses' = [c \in {d \in CallIds : calls[d].state = "waiting" /\ calls[d].task = t}
                     |-> Response(IF body.threw THEN "500" ELSE "200", intentId, t,
                                  body.result)]
  /\ sweeps' = [s \in SweepIds |->
                  IF s \in AwaitingSweeps(t)
                    THEN IF s \in handled.threw THEN IdleSweep
                         ELSE [SweepAdvance(sweeps[s]) EXCEPT !.verifyError = body.threw]
                    ELSE sweeps[s]]

Settle(t, intentId, hf, body) ==
  Resume(t, intentId, body,
         IF body.threw
           THEN SweepHandlers(1, t, intentId, hf,
                              [rows |-> body.rows, events |-> body.events])
           ELSE Handled([rows |-> body.rows, events |-> body.events], {}))

\* adapter.verify of task t settles with the answers of client cl; the task
\* body runs, the task settles, the starter's finally releases the lock and
\* every awaiting caller resumes (a sweep whose await throws runs its catch)
VerifyFinish(t, cl, fault, hf) ==
  /\ TurnOver
  /\ t \in DOMAIN tasks
  /\ Settle(t, tasks[t].intentId, hf, TaskBody(tasks[t], cl, fault))
  /\ UNCHANGED <<now, adapter, seenReferences, nextTask, directs, fn>>

\* ------------------------------------------------------ interval sweep
\* the timer fires: the callback lists the pending intents
SweepStart(s, batch) ==
  /\ TurnOver
  /\ FreeSlot(sweeps, s)
  /\ Active < MaxActive
  /\ batch \in listPendingIntents(rows)
  /\ sweeps' = [sweeps EXCEPT ![s] = IF Len(batch) = 0 THEN IdleSweep
                                     ELSE [state |-> "ready", batch |-> batch, idx |-> 1,
                                           task |-> 0, verifyError |-> FALSE]]
  /\ responses' = <<>>
  /\ UNCHANGED <<now, adapter, rows, events, seenReferences, verificationLocks, tasks,
                 nextTask, calls, directs, fn>>

\* one iteration of the for loop, up to `await verifyIntent(intent.id, ...)`
SweepCall(s) ==
  /\ sweeps[s].state = "ready"
  /\ VerifyIntentCall(sweeps[s].batch[sweeps[s].idx])
  /\ sweeps' = [sweeps EXCEPT ![s].state = "waiting",
                              ![s].task = TaskOf(sweeps[s].batch[sweeps[s].idx]),
                              ![s].verifyError = FALSE]
  /\ responses' = <<>>
  /\ UNCHANGED <<now, adapter, rows, events, seenReferences, calls, directs, fn>>

\* ------------------------------------------------------ other entry points
\* the response of POST /intents: 201 with the intent, or 400 with the
\* error's message and code (a failure of the store carries no WpisError code)
CreateResponse(kind, code, message, reference) ==
  [kind |-> kind, code |-> code, message |-> message, reference |-> reference]

\* POST /intents after adapter.createIntent returned or threw as created:
\* db.createIntent and the response, or the catch block
StoreCreated(created, reference, fault) ==
  /\ seenReferences' = created.seen
  /\ IF created.threw
       THEN /\ UNCHANGED <<rows, events>>
            /\ responses' = Put(<<>>, 0, CreateResponse("400", created.code, created.message,
                                                        reference))
       ELSE LET stored == DbCreateIntent(rows, events, created.intent, now, fault)
            IN /\ rows' = stored.rows
               /\ events' = stored.events
               /\ responses' = Put(<<>>, 0,
                                   IF stored.threw
                                     THEN CreateResponse("400", Null, "store failure", reference)
                                     ELSE CreateResponse("201", Null, Null, reference))

\* POST /intents
CreateIntent(input, fault) ==
  /\ TurnOver
  /\ Len(rows) < MaxIntents
  /\ StoreCreated(AdapterCreateIntent(adapter, input, Len(rows) + 1, now,
                                      findByReference(rows, input.reference) # 0,
                                      seenReferences),
                  input.reference, fault)
  /\ UNCHANGED <<now, adapter, verificationLocks, tasks, nextTask, calls, sweeps, directs, fn>>

\* a direct call of VerifierDb.updateIntentStatus
DirectUpdate(id, status, verification, fault) ==
  /\ TurnOver
  /\ directs < MaxDirect
  /\ nextTask + directs <= MaxTasks
  /\ directs' = directs + 1
  /\ LET upd == updateIntentStatus(rows, events, id, status, verification, now, fault)
     IN rows' = upd.rows /\ events' = upd.events
  /\ responses' = <<>>
  /\ UNCHANGED <<now, adapter, seenReferences, verificationLocks, tasks, nextTask, calls,
                 sweeps, fn>>

\* time passes
Tick ==
  /\ TurnOver
  /\ now < MaxTime
  /\ now' = now + 1
  /\ responses' = <<>>
  /\ UNCHANGED <<adapter, rows, events, seenReferences, verificationLocks, tasks, nextTask,
                 calls, sweeps, directs, fn>>

Next ==
  \/ \E c \in CallIds, id \in IntentIds : TriggerVerify(c, id)
  \/ \E t \in DOMAIN tasks, cl \in ServiceClients, fault \in DbFaults :
        \E hf \in [AwaitingSweeps(t) -> DbFaults] : VerifyFinish(t, cl, fault, hf)
  \/ \E s \in SweepIds, batch \in Orderings(PendingIds(rows)) : SweepStart(s, batch)
  \/ \E s \in SweepIds : SweepCall(s)
  \/ \E input \in ServiceInputs, fault \in DbFaults : CreateIntent(input, fault)
  \/ \E id \in IntentIds, status \in Statuses, verification \in DirectResults,
        fault \in DbFaults : DirectUpdate(id, status, verification, fault)
  \/ Tick

Spec == Init /\ [][Next]_vars

\* ========================================================== pure functions
\* the service at rest, for the specifications that apply a pure function
AtRest ==
  UNCHANGED <<now, adapter, rows, events, seenReferences, verificationLocks, tasks, nextTask,
              calls, responses, sweeps, directs>>

\* ------------------------------------------------------ state.ts, resolveNextStatus
\* the verification metadata resolveNextStatus is applied with
StateMetas == {<<Null, NullInt, Null>>, <<"0xh1", 2, "CHAIN_MISMATCH">>}

StateInput(from, to, meta) ==
  [op |-> "input", from |-> from, to |-> to, meta |-> meta, out |-> Null]

InitState ==
  /\ InitService
  /\ adapter = [expectedChainId |-> DEFAULT_ARBITRUM_SEPOLIA_CHAIN_ID,
                scanBlocks |-> ScanBlocks, debug |-> FALSE]
  /\ fn \in {StateInput(from, to, meta) : from \in Statuses, to \in Statuses,
                                          meta \in StateMetas}

ApplyCanTransition ==
  /\ fn.op = "input"
  /\ fn' = [fn EXCEPT !.op = "canTransition", !.out = canTransition(fn.from, fn.to)]
  /\ AtRest

ApplyTransitionStatus ==
  /\ fn.op = "input"
  /\ fn' = [fn EXCEPT !.op = "transitionStatus", !.out = transitionStatus(fn.from, fn.to)]
  /\ AtRest

ApplyResolveNextStatus ==
  /\ fn.op = "input"
  /\ fn' = [fn EXCEPT !.op = "resolveNextStatus",
                      !.out = resolveNextStatus(fn.from,
                                                VR(fn.to, fn.meta[1], fn.meta[2], Null,
                                                   fn.meta[3]))]
  /\ AtRest

NextState == ApplyCanTransition \/ ApplyTransitionStatus \/ ApplyResolveNextStatus

SpecState == InitState /\ [][NextState]_vars

\* ------------------------------------------------------ ArbitrumAdapter.verify
\* a stored intent as createIntent builds it
StoredIntent(chainId, asset, expiresAt, minConfirmations, status) ==
  [id |-> 1, createdAt |-> 0, expiresAt |-> expiresAt, chainId |-> chainId, asset |-> asset,
   recipient |-> "0xaa", amount |-> "2", reference |-> "r1",
   confirmationPolicy |-> [minConfirmations |-> minConfirmations], status |-> status]

VerifyIntents ==
  {StoredIntent(Caip2(c), a, e, m, st) :
     c \in SupportedChainIds,
     a \in {Asset("native", Null), Asset("erc20", ContractAddr), Asset("erc20", Null)},
     e \in 1..(MaxTime + 1), m \in {1, DEFAULT_MIN_CONFIRMATIONS},
     st \in {"PENDING", "DETECTED", "CONFIRMED"}}

\* clients that answer every call, on Arbitrum Sepolia, Arbitrum One or another
\* network (id 1), with the payment in any place
HealthyClients ==
  {Client(c, FALSE, FALSE, ChainWithPaymentAt(b), {},
          IF b >= 0 THEN <<Log("0xh2", "0xAA", 2, b, ContractAddr)>> ELSE <<>>, "none", FALSE) :
     c \in SupportedChainIds \cup {1}, b \in PaymentBlocks}

\* clients one of whose calls fails: getChainId, getBlockNumber, getBlock of
\* the latest block or of the one before, getLogs (range limit or another
\* error), getLogs of the diagnostic chunks
FailingClients ==
  UNION {{Client(c, TRUE, FALSE, ChainWithPaymentAt(-1), {}, <<>>, "none", FALSE),
          Client(c, FALSE, TRUE, ChainWithPaymentAt(-1), {}, <<>>, "none", FALSE),
          Client(c, FALSE, FALSE, ChainWithPaymentAt(-1), {MaxChainBlock}, <<>>, "none", FALSE),
          Client(c, FALSE, FALSE, ChainWithPaymentAt(-1), {MaxChainBlock - 1}, <<>>, "none",
                 FALSE),
          Client(c, FALSE, FALSE, ChainWithPaymentAt(-1), {}, <<>>, "range", FALSE),
          Client(c, FALSE, FALSE, ChainWithPaymentAt(-1), {}, <<>>, "other", FALSE),
          Client(c, FALSE, FALSE, ChainWithPaymentAt(-1), {}, <<>>, "none", TRUE)} :
           c \in SupportedChainIds}

\* the transfers of a chain in the order the node lists them: each is a
\* transaction of its block and, for the token contract, a Transfer log
Transfer(hash, to, value, blockNumber) == Tx(hash, to, value, blockNumber)

\* the chains the scan is applied to, L being the latest block: no transfer;
\* the payment of 2 to 0xaa in block L, L - 1 or 0; payments in L - 1 and L;
\* too small a value in L before the payment in L - 1; another recipient in L
\* and the payment in 0; too small a value and the payment both in L
TransferLists ==
  LET L == MaxChainBlock
  IN {<<>>,
      <<Transfer("0xh1", "0xaa", 2, L)>>,
      <<Transfer("0xh1", "0xaa", 2, L - 1)>>,
      <<Transfer("0xh1", "0xaa", 2, 0)>>,
      <<Transfer("0xh1", "0xaa", 2, L - 1), Transfer("0xh3", "0xAA", 3, L)>>,
      <<Transfer("0xh4", "0xaa", 1, L), Transfer("0xh1", "0xaa", 2, L - 1)>>,
      <<Transfer("0xh5", "0xbb", 2, L), Transfer("0xh1", "0xaa", 2, 0)>>,
      <<Transfer("0xh4", "0xaa", 1, L), Transfer("0xh1", "0xaa", 2, L)>>,
      <<Transfer("0xh4", "0xaa", 1, L)>>}

\* the blocks of a chain with these transfers
ChainOf(xs) ==
  [n \in 1..(MaxChainBlock + 1) |-> SelectSeq(xs, LAMBDA x : x.blockNumber = n - 1)]

\* the Transfer logs of the token contract on a chain with these transfers
LogsOf(xs) ==
  [i \in 1..Len(xs) |->
     Log(xs[i].hash, xs[i].to, xs[i].value, xs[i].blockNumber, ContractAddr)]

\* clients on Arbitrum Sepolia that answer every call
ScanClients ==
  {Client(DEFAULT_ARBITRUM_SEPOLIA_CHAIN_ID, FALSE, FALSE, ChainOf(xs), {}, LogsOf(xs),
          "none", FALSE) : xs \in TransferLists}

\* clients on Arbitrum Sepolia whose chain has block 0 only, with and without
\* the payment
ShortChainClients ==
  {Client(DEFAULT_ARBITRUM_SEPOLIA_CHAIN_ID, FALSE, FALSE, <<xs>>, {}, LogsOf(xs), "none",
          FALSE) : xs \in {<<>>, <<Transfer("0xh1", "0xaa", 2, 0)>>}}

VerifyClients == HealthyClients \cup FailingClients \cup ScanClients \cup ShortChainClients

\* the scan depth: none, ScanBlocks, or deeper than the chain
AdapterConfigs ==
  {[expectedChainId |-> c, scanBlocks |-> n, debug |-> d] :
     c \in SupportedChainIds, n \in {0, ScanBlocks, MaxChainBlock + 1}, d \in BOOLEAN}

Reverse(seq) == [i \in 1..Len(seq) |-> seq[Len(seq) + 1 - i]]

\* the same chain listed by the node in the opposite order, inside each block
\* and inside a getLogs response
Reordered(cl) ==
  [cl EXCEPT !.blocks = [n \in DOMAIN cl.blocks |-> Reverse(cl.blocks[n])],
             !.logs = Reverse(cl.logs)]

InitVerify ==
  /\ InitService
  /\ adapter \in AdapterConfigs
  /\ fn \in {[op |-> "input", intent |-> i, twin |-> i, nowv |-> t, cl |-> c, out |-> Rejected(<<>>),
                out2 |-> Rejected(<<>>), dbPing |-> "none", health |-> NoHealth] :
               i \in VerifyIntents, t \in 0..MaxTime, c \in VerifyClients}

ApplyVerify ==
  /\ fn.op = "input"
  /\ fn' = [fn EXCEPT !.op = "verify", !.out = verify(adapter, fn.intent, fn.nowv, fn.cl)]
  /\ AtRest

\* verify applied to a client and to the same client listing in another order
ApplyVerifyReordered ==
  /\ fn.op = "input"
  /\ fn' = [fn EXCEPT !.op = "reordered",
                      !.out = verify(adapter, fn.intent, fn.nowv, fn.cl),
                      !.out2 = verify(adapter, fn.intent, fn.nowv, Reordered(fn.cl))]
  /\ AtRest

\* another intent for the same recipient, with its own id and reference
Twin(intent, amount) == [intent EXCEPT !.id = 2, !.reference = "r2", !.amount = amount]

\* verify applied to an intent and, on the same chain, to another intent for
\* the same recipient
ApplyVerifyTwin ==
  /\ fn.op = "input"
  /\ \E amount \in {"1", "2", "3"} :
       fn' = [fn EXCEPT !.op = "twin", !.twin = Twin(fn.intent, amount),
                        !.out = verify(adapter, fn.intent, fn.nowv, fn.cl),
                        !.out2 = verify(adapter, Twin(fn.intent, amount), fn.nowv, fn.cl)]
  /\ AtRest

\* GET /health on a service with this adapter and client
ApplyHealth ==
  /\ fn.op = "input"
  /\ \E dbPing \in {"ok", "throws"} :
       fn' = [fn EXCEPT !.op = "health", !.dbPing = dbPing,
                        !.health = health(dbPing, fn.cl, adapter.expectedChainId)]
  /\ AtRest

NextVerify == ApplyVerify \/ ApplyVerifyReordered \/ ApplyHealth \/ ApplyVerifyTwin

SpecVerify == InitVerify /\ [][NextVerify]_vars

\* ------------------------------------------------------ VerifierDb.updateIntentStatus
\* the stored row of one intent, in any status, with or without a recorded
\* transaction
StoreRow(status, txHash, confirmations) ==
  [json |-> StoredIntent(Caip2(DEFAULT_ARBITRUM_SEPOLIA_CHAIN_ID), Asset("native", Null),
                         MaxTime + 1, DEFAULT_MIN_CONFIRMATIONS, status),
   status |-> status, tx_hash |-> txHash, confirmations |-> confirmations,
   last_checked_at |-> NullInt]

StoreRows ==
  {StoreRow(st, tx[1], tx[2]) : st \in Statuses, tx \in {<<Null, NullInt>>, <<"0xh1", 2>>}}

\* the txHash and confirmations of the verification argument
StoreMetas == {<<Null, NullInt>>, <<"0xh1", 2>>, <<"0xh9", 3>>}

\* the call updateIntentStatus(id, target, meta); id 2 is unknown to the store
StoreInput(id, target, meta) ==
  [op |-> "input", id |-> id, target |-> target, meta |-> meta, first |-> FALSE,
   changed |-> FALSE, before |-> <<>>]

InitStore ==
  /\ now = 0
  /\ adapter = [expectedChainId |-> DEFAULT_ARBITRUM_SEPOLIA_CHAIN_ID,
                scanBlocks |-> ScanBlocks, debug |-> FALSE]
  /\ rows \in {<<r>> : r \in StoreRows}
  /\ events = <<<<Event("INTENT_CREATED", [status |-> "PENDING"], 0)>>>>
  /\ seenReferences = {}
  /\ verificationLocks = <<>>
  /\ tasks = <<>>
  /\ nextTask = 1
  /\ calls = [c \in CallIds |-> IdleCall]
  /\ responses = <<>>
  /\ sweeps = [s \in SweepIds |-> IdleSweep]
  /\ directs = 0
  /\ fn \in {StoreInput(id, target, meta) : id \in {1, 2}, target \in Statuses,
                                            meta \in StoreMetas}

\* updateIntentStatus with the arguments of fn, on the store as it is
StoreCall ==
  updateIntentStatus(rows, events, fn.id, fn.target,
                     VR(fn.target, fn.meta[1], fn.meta[2], Null, Null), now, "none")

\* the first call
UpdateOnce ==
  /\ fn.op = "input"
  /\ rows' = StoreCall.rows
  /\ events' = StoreCall.events
  /\ fn' = [fn EXCEPT !.op = "once", !.first = StoreCall.changed,
                      !.changed = StoreCall.changed,
                      !.before = [rows |-> rows, events |-> events]]
  /\ UNCHANGED <<now, adapter, seenReferences, verificationLocks, tasks, nextTask, calls,
                 responses, sweeps, directs>>

\* the same call again
UpdateAgain ==
  /\ fn.op = "once"
  /\ rows' = StoreCall.rows
  /\ events' = StoreCall.events
  /\ fn' = [fn EXCEPT !.op = "twice", !.changed = StoreCall.changed,
                      !.before = [rows |-> rows, events |-> events]]
  /\ UNCHANGED <<now, adapter, seenReferences, verificationLocks, tasks, nextTask, calls,
                 responses, sweeps, directs>>

NextStore == UpdateOnce \/ UpdateAgain

SpecStore == InitStore /\ [][NextStore]_vars

\* ------------------------------------------------------ the sweep over a given store
\* two PENDING native intents for the same recipient and amount, as
\* POST /intents stored them
SweepIntent == StoredIntent(Caip2(DEFAULT_ARBITRUM_SEPOLIA_CHAIN_ID), Asset("native", Null),
                            MaxTime + 1, DEFAULT_MIN_CONFIRMATIONS, "PENDING")

SweepStore ==
  LET first == DbCreateIntent(<<>>, <<>>, SweepIntent, 0, "none")
  IN DbCreateIntent(first.rows, first.events, Twin(SweepIntent, "2"), 0, "none")

\* fn.hung: the intents whose verification meets a chain-client call that
\* never answers
InitSweep ==
  /\ now = 0
  /\ adapter = [expectedChainId |-> DEFAULT_ARBITRUM_SEPOLIA_CHAIN_ID,
                scanBlocks |-> ScanBlocks, debug |-> FALSE]
  /\ rows = SweepStore.rows
  /\ events = SweepStore.events
  /\ seenReferences = {}
  /\ verificationLocks = <<>>
  /\ tasks = <<>>
  /\ nextTask = 1
  /\ calls = [c \in CallIds |-> IdleCall]
  /\ responses = <<>>
  /\ sweeps = [s \in SweepIds |-> IdleSweep]
  /\ directs = 0
  /\ fn \in {[op |-> "sweep", hung |-> h] : h \in {{}, {1}}}

\* adapter.verify of task t settles; it never does while a client call of the
\* verification stays unanswered: neither verify nor verifyIntent nor the
\* sweep bounds the wait
VerifyAnswered(t, cl, fault, hf) ==
  /\ t \in DOMAIN tasks
  /\ tasks[t].intentId \notin fn.hung
  /\ VerifyFinish(t, cl, fault, hf)

NextSweep ==
  \/ \E c \in CallIds, id \in IntentIds : TriggerVerify(c, id)
  \/ \E t \in DOMAIN tasks, cl \in ServiceClients, fault \in DbFaults :
        \E hf \in [AwaitingSweeps(t) -> DbFaults] : VerifyAnswered(t, cl, fault, hf)
  \/ \E s \in SweepIds, batch \in Orderings(PendingIds(rows)) : SweepStart(s, batch)
  \/ \E s \in SweepIds : SweepCall(s)

SpecSweep == InitSweep /\ [][NextSweep]_vars

\* the timer fires every interval, a continuation that is due runs, and a
\* verification whose client calls are answered settles
FairSweep ==
  /\ SpecSweep
  /\ WF_vars(\E s \in SweepIds, batch \in Orderings(PendingIds(rows)) : SweepStart(s, batch))
  /\ WF_vars(\E s \in SweepIds : SweepCall(s))
  /\ \A t \in 1..MaxSweepTasks :
       WF_vars(\E cl \in ServiceClients, fault \in DbFaults :
                 \E hf \in [AwaitingSweeps(t) -> DbFaults] : VerifyAnswered(t, cl, fault, hf))

\* ------------------------------------------------------ the sweep as time passes
\* two PENDING native intents that expire at MaxTime
ExpiringIntent == [SweepIntent EXCEPT !.expiresAt = MaxTime]

InitExpiry ==
  LET first == DbCreateIntent(<<>>, <<>>, ExpiringIntent, 0, "none")
      store == DbCreateIntent(first.rows, first.events, Twin(ExpiringIntent, "2"), 0, "none")
  IN /\ now = 0
     /\ adapter = [expectedChainId |-> DEFAULT_ARBITRUM_SEPOLIA_CHAIN_ID,
                   scanBlocks |-> ScanBlocks, debug |-> FALSE]
     /\ rows = store.rows
     /\ events = store.events
     /\ seenReferences = {}
     /\ verificationLocks = <<>>
     /\ tasks = <<>>
     /\ nextTask = 1
     /\ calls = [c \in CallIds |-> IdleCall]
     /\ responses = <<>>
     /\ sweeps = [s \in SweepIds |-> IdleSweep]
     /\ directs = 0
     /\ fn = [op |-> "expiry", hung |-> {}]

\* requests one at a time for intents that are pending, sweeps, verifications
\* whose client calls are answered (with a value or an error) and whose store
\* does not fail, and time
NextExpiry ==
  \/ \E id \in PendingIds(rows) : TriggerVerify(1, id)
  \/ \E t \in DOMAIN tasks, cl \in ServiceClients :
        VerifyAnswered(t, cl, "none", [s \in AwaitingSweeps(t) |-> "none"])
  \/ \E s \in SweepIds, batch \in Orderings(PendingIds(rows)) : SweepStart(s, batch)
  \/ \E s \in SweepIds : SweepCall(s)
  \/ Tick

SpecExpiry == InitExpiry /\ [][NextExpiry]_vars

\* the timer keeps firing, a continuation that is due runs, every verification
\* is answered, and time passes
FairExpiry ==
  /\ SpecExpiry
  /\ WF_vars(\E s \in SweepIds, batch \in Orderings(PendingIds(rows)) : SweepStart(s, batch))
  /\ WF_vars(\E s \in SweepIds : SweepCall(s))
  /\ \A t \in 1..(MaxEarlyTasks + MaxLateTasks) :
       WF_vars(\E cl \in ServiceClients :
                 VerifyAnswered(t, cl, "none", [s \in AwaitingSweeps(t) |-> "none"]))
  /\ WF_vars(Tick)

\* ------------------------------------------------------ createIntent, then the store
\* the assets of creation requests: native, erc20 with and without its
\* contract, and decimals that are negative, zero or NaN
CreateAssets ==
  {Asset("native", Null), Asset("erc20", ContractAddr), Asset("erc20", Null),
   [Asset("native", Null) EXCEPT !.decimals = -1],
   [Asset("native", Null) EXCEPT !.decimals = 0],
   [Asset("native", Null) EXCEPT !.decimals = NaN]}

\* the chainId of a creation request: absent, or the id of network c
InputChainId(c) == IF c = 0 THEN Null ELSE Caip2(c)

\* the creation requests on chain c: every other field valid or not,
\* minConfirmations absent, negative, zero, positive or NaN
CreateInputs(c) ==
  {Input(InputChainId(c), a, rc, am, rf, e, m) :
     a \in CreateAssets, rc \in {"0xaa", "bad-address"}, am \in {"0", "2", "x"},
     rf \in {"r1", " "}, e \in {InvalidDate} \cup (1..(MaxTime + 1)),
     m \in {NullInt, -1, 0, 1, NaN}}

InitCreate ==
  /\ InitService
  /\ adapter \in {[expectedChainId |-> c, scanBlocks |-> ScanBlocks, debug |-> FALSE] :
                    c \in SupportedChainIds}
  /\ \E c \in SupportedChainIds \cup {0} :
       fn \in {[op |-> "input", input |-> i, nowv |-> t, used |-> u,
                 out |-> CreateFailed(Null, Null, {}, Null), got |-> NoStored,
                 missing |-> NoStored] :
                i \in CreateInputs(c), t \in 0..MaxTime, u \in BOOLEAN}

\* adapter.createIntent(input) at time nowv, isReferenceUsed answering used
ApplyCreateIntent ==
  /\ fn.op = "input"
  /\ fn' = [fn EXCEPT !.op = "createIntent",
                      !.out = AdapterCreateIntent(adapter, fn.input, 1, fn.nowv, fn.used, {})]
  /\ AtRest

\* db.createIntent(intent) of the intent createIntent returned, then
\* getIntent of its id and of another id
ApplyStoreIntent ==
  /\ fn.op = "createIntent"
  /\ ~fn.out.threw
  /\ LET stored == DbCreateIntent(rows, events, fn.out.intent, fn.nowv, "none")
     IN /\ rows' = stored.rows
        /\ events' = stored.events
        /\ fn' = [fn EXCEPT !.op = "stored", !.got = getIntent(stored.rows, fn.out.intent.id),
                            !.missing = getIntent(stored.rows, fn.out.intent.id + 1)]
  /\ UNCHANGED <<now, adapter, seenReferences, verificationLocks, tasks, nextTask, calls,
                 responses, sweeps, directs>>

NextCreate == ApplyCreateIntent \/ ApplyStoreIntent

SpecCreate == InitCreate /\ [][NextCreate]_vars

\* ================================================================== claims
\* the transition table of the payment-intent lifecycle
TransitionTable ==
  {<<"PENDING", "DETECTED">>, <<"PENDING", "CONFIRMED">>, <<"PENDING", "EXPIRED">>,
   <<"PENDING", "FAILED">>, <<"DETECTED", "CONFIRMED">>, <<"DETECTED", "EXPIRED">>,
   <<"DETECTED", "FAILED">>}

\* C1: under every interleaving of createIntent, on-demand verification,
\* sweeps (with their exception handler) and direct updateIntentStatus calls,
\* each change of a stored intent's persisted status follows an edge of the
\* transition table: nothing leaves CONFIRMED, EXPIRED or FAILED, and
\* DETECTED never returns to PENDING.
C1_StatusFollowsLegalEdges ==
  [][\A id \in 1..Len(rows) :
       /\ id \in 1..Len(rows')
       /\ rows'[id].status # rows[id].status =>
            <<rows[id].status, rows'[id].status>> \in TransitionTable]_vars

\* C1 witness: a DETECTED intent was verified again, the scan found nothing
\* (result PENDING), and the intent is still DETECTED
C1_Witness ==
  \E id \in 1..Len(rows) :
    /\ rows[id].status = "DETECTED"
    /\ Len(events[id]) >= 3
    /\ events[id][Len(events[id])].payload.reason
         = "matching transaction not found in scan range"

\* C2: for all 25 pairs, canTransition(from, to) is true exactly on the edges
\* of the transition table; transitionStatus returns `to` on those edges and
\* fails with VALIDATION_ERROR on every other pair.
C2_TransitionTable ==
  /\ fn.op = "canTransition" => fn.out = (<<fn.from, fn.to>> \in TransitionTable)
  /\ fn.op = "transitionStatus" =>
       IF <<fn.from, fn.to>> \in TransitionTable
         THEN ~fn.out.threw /\ fn.out.value = fn.to
         ELSE fn.out.threw /\ fn.out.code = "VALIDATION_ERROR"

\* C2 witness: transitionStatus was applied to a pair out of a terminal status
\* and failed
C2_Witness ==
  /\ fn.op = "transitionStatus"
  /\ fn.from = "CONFIRMED"
  /\ fn.to = "PENDING"
  /\ fn.out.threw

\* C3: at every moment at most one adapter.verify is in flight per intent id,
\* and every on-demand call or sweep that waits for a verification of an
\* intent waits for that one in-flight verification.
C3_OneInFlightPerIntent ==
  /\ \A t1, t2 \in DOMAIN tasks : tasks[t1].intentId = tasks[t2].intentId => t1 = t2
  /\ \A c \in CallIds : calls[c].state = "waiting" =>
       /\ calls[c].task \in DOMAIN tasks
       /\ tasks[calls[c].task].intentId = calls[c].intentId
  /\ \A s \in SweepIds : sweeps[s].state = "waiting" =>
       /\ sweeps[s].task \in DOMAIN tasks
       /\ tasks[sweeps[s].task].intentId = sweeps[s].batch[sweeps[s].idx]

\* C3 witness: two overlapping sweeps wait for the same in-flight verification
C3_Witness ==
  /\ sweeps[1].state = "waiting"
  /\ sweeps[2].state = "waiting"
  /\ sweeps[1].task = sweeps[2].task
  /\ Cardinality(DOMAIN tasks) = 1

\* C4: two concurrent triggerVerify calls for one intent wait for the same
\* single verification; both receive the same response (the same result, or
\* the same failure), and when a result is returned the store was updated
\* exactly once.
C4_ConcurrentTriggersShareOneVerification ==
  [][/\ \A c1, c2 \in CallIds :
          (/\ calls'[c1].state = "waiting"
           /\ calls'[c2].state = "waiting"
           /\ calls'[c1].intentId = calls'[c2].intentId) => calls'[c1].task = calls'[c2].task
     /\ \A c1, c2 \in DOMAIN responses' :
          c1 # c2 =>
            /\ responses'[c1] = responses'[c2]
            /\ responses'[c1].kind \in {"200", "500"}
            /\ responses'[c1].kind = "200" =>
                 Len(events'[responses'[c1].intentId])
                   = Len(events[responses'[c1].intentId]) + 1]_vars

\* C4 witness: two calls for the same intent have just been answered with the
\* same CONFIRMED result
C4_Witness ==
  /\ DOMAIN responses = {1, 2}
  /\ responses[1].kind = "200"
  /\ responses[1].result.status = "CONFIRMED"
  /\ responses[1].intentId = responses[2].intentId

\* a chain-client call among calls failed on client cl; the third call of a
\* verification is the scan's first getLogs, later getLogs are chunk queries
AnyCallFailed(cl, made) ==
  \E k \in 1..Len(made) :
    CASE made[k].op = "getChainId" -> cl.chainIdErr
      [] made[k].op = "getBlockNumber" -> cl.blockNumberErr
      [] made[k].op = "getBlock" -> made[k].from \in cl.blockErr
      [] made[k].op = "getLogs" -> IF k = 3 THEN cl.logsErr # "none" ELSE cl.chunkErr
      [] OTHER -> FALSE

\* C5: whenever a chain-client call made during verify fails (getChainId,
\* getBlockNumber, getBlock, getLogs with a range-limit or any other error),
\* verify does not throw but returns FAILED with errorCode RPC_ERROR.
C5_VerifyNeverThrowsOnRpcFailure ==
  (fn.op = "verify" /\ AnyCallFailed(fn.cl, fn.out.calls)) =>
    /\ ~fn.out.threw
    /\ fn.out.result.status = "FAILED"
    /\ fn.out.result.errorCode = "RPC_ERROR"

\* verify returned FAILED / CHAIN_MISMATCH at the network check
NetworkMismatch(out) ==
  /\ ~out.threw
  /\ out.result.status = "FAILED"
  /\ out.result.errorCode = "CHAIN_MISMATCH"
  /\ out.result.reason = "rpc chain mismatch"

\* C6: for an adapter configured with 421614 or 42161 and a non-expired intent
\* on the adapter's chain, verify returns FAILED / CHAIN_MISMATCH at the
\* network check if and only if the network id the client reports differs
\* from the adapter's expectedChainId.
C6_ChainMismatchIffNetworkDiffers ==
  (/\ fn.op = "verify"
   /\ fn.intent.chainId = Caip2(adapter.expectedChainId)
   /\ fn.nowv < fn.intent.expiresAt
   /\ ~fn.cl.chainIdErr) =>
    (NetworkMismatch(fn.out) <=> fn.cl.chainId # adapter.expectedChainId)

\* C7: for an intent on the adapter's chain, verify returns EXPIRED whenever
\* now >= expiresAt (equality included), whatever the chain holds and whatever
\* the intent's status, and makes no chain-client call.
C7_ExpiredBeforeAnyRpc ==
  (/\ fn.op = "verify"
   /\ fn.intent.chainId = Caip2(adapter.expectedChainId)
   /\ fn.nowv >= fn.intent.expiresAt) =>
    /\ ~fn.out.threw
    /\ fn.out.result.status = "EXPIRED"
    /\ fn.out.calls = <<>>

\* C7 witness: verify at now = expiresAt of a DETECTED intent whose payment
\* lies on the chain returned EXPIRED
C7_Witness ==
  /\ fn.op = "verify"
  /\ fn.intent.chainId = Caip2(adapter.expectedChainId)
  /\ fn.nowv = fn.intent.expiresAt
  /\ fn.intent.status = "DETECTED"
  /\ fn.cl.chainId = adapter.expectedChainId
  /\ Len(fn.cl.logs) > 0
  /\ fn.out.result.status = "EXPIRED"

\* C8: the next persisted status is current if current is terminal, current if
\* the verification's status equals it, current if the move is not an edge of
\* the transition table, and the verification's status otherwise; so it is
\* always current or a legal successor of current.
C8_ResolveNextStatus ==
  fn.op = "resolveNextStatus" =>
    /\ fn.out = IF fn.from \in {"CONFIRMED", "EXPIRED", "FAILED"} THEN fn.from
                ELSE IF fn.to = fn.from THEN fn.from
                ELSE IF <<fn.from, fn.to>> \notin TransitionTable THEN fn.from
                ELSE fn.to
    /\ fn.out = fn.from \/ <<fn.from, fn.out>> \in TransitionTable

\* C8 witness: a backward result (PENDING for a DETECTED intent) was resolved
\* to the current status
C8_Witness ==
  /\ fn.op = "resolveNextStatus"
  /\ fn.from = "DETECTED"
  /\ fn.to = "PENDING"
  /\ fn.out = "DETECTED"

\* C9: every creation appends exactly one event to the new intent's trail, and
\* every on-demand verification attempt that is answered - with a result, or
\* with the failure of a verify that threw - has appended exactly one event to
\* the intent's trail.
C9_OneEventPerAttempt ==
  [][/\ Len(rows') = Len(rows) + 1 => Len(events'[Len(rows')]) = 1
     /\ \A c \in DOMAIN responses' :
          (\/ responses'[c].kind = "200"
           \/ responses'[c].kind = "500" /\ responses'[c].result.reason = "thrown") =>
            Len(events'[responses'[c].intentId])
              = Len(events[responses'[c].intentId]) + 1]_vars

\* C10: a sweep that waits for the verification of an intent of its batch
\* ends only after the last intent of the batch: whatever fails while intent i
\* is verified, the intents after i are still verified in the same sweep.
C10_SweepContinuesAfterFailure ==
  [][\A s \in SweepIds :
       (sweeps[s].state = "waiting" /\ sweeps'[s].state = "idle") =>
         sweeps[s].idx = Len(sweeps[s].batch)]_vars

\* C11: once a stored intent is CONFIRMED, EXPIRED or FAILED, no later step -
\* a direct updateIntentStatus, an on-demand verification or a sweep - changes
\* its stored status, txHash or confirmations.
C11_TerminalRecordFrozen ==
  [][\A id \in 1..Len(rows) :
       rows[id].status \in {"CONFIRMED", "EXPIRED", "FAILED"} =>
         /\ rows'[id].status = rows[id].status
         /\ rows'[id].tx_hash = rows[id].tx_hash
         /\ rows'[id].confirmations = rows[id].confirmations]_vars

\* C19: no two stored intents have the same reference, and a creation request
\* answered with the duplicate-reference error stored nothing.
C19_ReferenceUnique ==
  /\ \A i, j \in 1..Len(rows) : rows[i].json.reference = rows[j].json.reference => i = j
  /\ \A c \in DOMAIN responses :
       (responses[c].kind = "400" /\ responses[c].message = "reference must be unique") =>
         /\ responses[c].code = "VALIDATION_ERROR"
         /\ Cardinality({i \in 1..Len(rows) :
                           rows[i].json.reference = responses[c].reference}) = 1

\* C19 witness: a creation request for a reference that a stored intent holds
\* has just been rejected, another intent with its own reference being stored
C19_Witness ==
  /\ Len(rows) = 1
  /\ 0 \in DOMAIN responses
  /\ responses[0].kind = "400"
  /\ responses[0].message = "reference must be unique"
  /\ rows[1].json.reference = responses[0].reference

\* C20: a creation request that fails with VALIDATION_ERROR or CHAIN_MISMATCH
\* returns no intent, marks no reference as used and leaves the store's rows
\* and events as they were.
C20_CreateAllOrNothing ==
  [][\A c \in DOMAIN responses' :
       (responses'[c].kind = "400"
          /\ responses'[c].code \in {"VALIDATION_ERROR", "CHAIN_MISMATCH"}) =>
         /\ rows' = rows
         /\ events' = events
         /\ seenReferences' = seenReferences]_vars

\* C20 witness: a request on another chain has just been rejected with
\* CHAIN_MISMATCH while an intent is stored
C20_Witness ==
  /\ Len(rows) = 1
  /\ 0 \in DOMAIN responses
  /\ responses[0].kind = "400"
  /\ responses[0].code = "CHAIN_MISMATCH"

\* C12: updateIntentStatus called twice in a row with the same arguments
\* returns changed = false the second time and leaves the stored status, txHash
\* and confirmations as the first call left them.
C12_UpdateIdempotent ==
  fn.op = "twice" =>
    /\ ~fn.changed
    /\ \A id \in 1..Len(rows) :
         /\ rows[id].status = fn.before.rows[id].status
         /\ rows[id].tx_hash = fn.before.rows[id].tx_hash
         /\ rows[id].confirmations = fn.before.rows[id].confirmations

\* C12 witness: the first call moved the intent to CONFIRMED with a new
\* transaction and the same call was made again
C12_Witness ==
  /\ fn.op = "twice"
  /\ fn.first
  /\ rows[1].status = "CONFIRMED"
  /\ rows[1].tx_hash = "0xh9"

\* the call of fn is one the claim names a no-op on the store `before`: the id
\* is unknown, or the status is the target already and the metadata brings
\* nothing new, or the move is not an edge of the transition table
StoreNoOp(before) ==
  \/ fn.id \notin 1..Len(before)
  \/ /\ before[fn.id].status = fn.target
     /\ fn.meta[1] \in {Null, before[fn.id].tx_hash}
     /\ fn.meta[2] \in {NullInt, before[fn.id].confirmations}
  \/ /\ before[fn.id].status # fn.target
     /\ <<before[fn.id].status, fn.target>> \notin TransitionTable

\* C13: updateIntentStatus returns false, writes no row and appends no event
\* when the id is unknown, when the status already equals the target and the
\* metadata is unchanged, or when the move is illegal; in every other case it
\* persists the target status and returns true; it returns true exactly when
\* the persisted status changed.
C13_UpdateNoOpOrPersist ==
  fn.op = "once" =>
    /\ StoreNoOp(fn.before.rows) =>
         (~fn.changed /\ rows = fn.before.rows /\ events = fn.before.events)
    /\ ~StoreNoOp(fn.before.rows) => (fn.changed /\ rows[fn.id].status = fn.target)
    /\ fn.changed <=>
         (fn.id \in 1..Len(rows) /\ rows[fn.id].status # fn.before.rows[fn.id].status)

\* ------------------------------------------------------ the scan of verify
\* verify was applied to a non-expired intent on the adapter's chain through a
\* client on Arbitrum Sepolia that answers every call, so the scan ran; an
\* erc20 intent names its contract
Scanned ==
  /\ fn.op = "verify"
  /\ fn.intent.chainId = Caip2(adapter.expectedChainId)
  /\ fn.nowv < fn.intent.expiresAt
  /\ fn.cl.chainId = DEFAULT_ARBITRUM_SEPOLIA_CHAIN_ID
  /\ ~fn.cl.chainIdErr /\ ~fn.cl.blockNumberErr /\ fn.cl.blockErr = {}
  /\ fn.cl.logsErr = "none" /\ ~fn.cl.chunkErr
  /\ fn.intent.asset.type = "erc20" => fn.intent.asset.contractAddress # Null

\* max(0, L - scanBlocks)
WindowFloor == IF fn.cl.blockNumber - adapter.scanBlocks > 0
                 THEN fn.cl.blockNumber - adapter.scanBlocks ELSE 0

\* a transfer of at least the intent's amount to the intent's recipient
Pays(to, value) ==
  /\ to # Null
  /\ value # NullInt
  /\ normalizeAddress(to) = normalizeAddress(fn.intent.recipient)
  /\ value >= toBigInt(fn.intent.amount)

\* the qualifying transfers of the intent's asset on the client's chain in
\* blocks lo..hi, as <<hash, block>>
PaymentsIn(lo, hi) ==
  IF fn.intent.asset.type = "native"
    THEN UNION {{<<fn.cl.blocks[b + 1][k].hash, b>> :
                   k \in {j \in 1..Len(fn.cl.blocks[b + 1]) :
                            Pays(fn.cl.blocks[b + 1][j].to, fn.cl.blocks[b + 1][j].value)}} :
                b \in {c \in lo..hi : c + 1 <= Len(fn.cl.blocks)}}
    ELSE {<<fn.cl.logs[k].transactionHash, fn.cl.logs[k].blockNumber>> :
            k \in {j \in 1..Len(fn.cl.logs) :
                     /\ normalizeAddress(fn.cl.logs[j].address) =
                          normalizeAddress(fn.intent.asset.contractAddress)
                     /\ fn.cl.logs[j].blockNumber \in lo..hi
                     /\ Pays(fn.cl.logs[j].to, fn.cl.logs[j].value)}}

\* the result reports the transfer <<hash, block>> with L - block + 1
\* confirmations, CONFIRMED when that reaches minConfirmations and DETECTED
\* with CONFIRMATION_PENDING when it does not
Reports(result, payment) ==
  LET confirmations == fn.cl.blockNumber - payment[2] + 1
  IN /\ result.txHash = payment[1]
     /\ result.confirmations = confirmations
     /\ IF confirmations < fn.intent.confirmationPolicy.minConfirmations
          THEN result.status = "DETECTED" /\ result.errorCode = "CONFIRMATION_PENDING"
          ELSE result.status = "CONFIRMED"

\* C14: when the scan of a non-expired intent on the adapter's chain runs, the
\* result is PENDING if the window holds no qualifying transfer; otherwise it
\* reports a qualifying transfer of the window in block B with its hash and
\* confirmations = L - B + 1, as DETECTED with CONFIRMATION_PENDING when
\* confirmations < minConfirmations and as CONFIRMED when confirmations >=
\* minConfirmations.
C14_ScanClassification ==
  Scanned =>
    /\ ~fn.out.threw
    /\ IF PaymentsIn(WindowFloor, fn.cl.blockNumber) = {}
         THEN fn.out.result.status = "PENDING"
         ELSE \E payment \in PaymentsIn(WindowFloor, fn.cl.blockNumber) :
                Reports(fn.out.result, payment)

\* C14 witness: a scan under minConfirmations = 2 that finds the payment one
\* block below the latest and reports CONFIRMED with 2 confirmations
C14_Witness ==
  /\ Scanned
  /\ fn.intent.confirmationPolicy.minConfirmations = DEFAULT_MIN_CONFIRMATIONS
  /\ PaymentsIn(WindowFloor, fn.cl.blockNumber) = {<<"0xh1", fn.cl.blockNumber - 1>>}
  /\ fn.out.result.status = "CONFIRMED"
  /\ fn.out.result.confirmations = DEFAULT_MIN_CONFIRMATIONS

\* the calls of the scan: those after getChainId and getBlockNumber
ScanCalls(made) == {k \in 1..Len(made) : made[k].op \in {"getBlock", "getLogs"}}

\* C15: verify fetches no block and queries no log range outside
\* [max(0, L - scanBlocks), L]; the erc20 getLogs query has exactly
\* fromBlock = max(0, L - scanBlocks) and toBlock = L; and a scan whose only
\* qualifying transfers lie below the floor answers PENDING.
C15_ScanWindow ==
  fn.op = "verify" =>
    /\ \A k \in ScanCalls(fn.out.calls) :
         /\ fn.out.calls[k].from >= WindowFloor
         /\ fn.out.calls[k].to <= fn.cl.blockNumber
         /\ fn.out.calls[k].from <= fn.out.calls[k].to
    /\ \A k \in ScanCalls(fn.out.calls) :
         (fn.out.calls[k].op = "getLogs" /\ k = 3) =>
           (fn.out.calls[k].from = WindowFloor /\ fn.out.calls[k].to = fn.cl.blockNumber)
    /\ (Scanned /\ PaymentsIn(WindowFloor, fn.cl.blockNumber) = {}) =>
         (~fn.out.threw /\ fn.out.result.status = "PENDING")

\* C15 witness: a scan with the floor above block 0 answers PENDING although
\* block 0 holds a qualifying transfer
C15_Witness ==
  /\ Scanned
  /\ WindowFloor > 0
  /\ PaymentsIn(0, WindowFloor - 1) # {}
  /\ PaymentsIn(WindowFloor, fn.cl.blockNumber) = {}
  /\ ScanCalls(fn.out.calls) # {}
  /\ fn.out.result.status = "PENDING"

\* the blocks of the window with a qualifying native transaction
PaidBlocks == {b \in WindowFloor..fn.cl.blockNumber : PaymentsIn(b, b) # {}}

\* the first qualifying transaction of block b, as <<hash, block>>
FirstPaymentOf(b) ==
  LET txs == fn.cl.blocks[b + 1]
      first == FirstIndex({j \in 1..Len(txs) : Pays(txs[j].to, txs[j].value)})
  IN <<txs[first].hash, b>>

\* C16: on the native path the scan reports the first qualifying transaction
\* of the newest block of the window that has one, so confirmations is the
\* smallest possible; a transaction of a smaller value or to another
\* recipient is never the match; with no qualifying transaction the result is
\* PENDING.
C16_NativeNewestFirst ==
  (Scanned /\ fn.intent.asset.type = "native") =>
    IF PaidBlocks = {}
      THEN fn.out.result.status = "PENDING" /\ fn.out.result.txHash = Null
      ELSE LET newest == CHOOSE b \in PaidBlocks : \A c \in PaidBlocks : c <= b
           IN /\ fn.out.result.txHash = FirstPaymentOf(newest)[1]
              /\ fn.out.result.confirmations = fn.cl.blockNumber - newest + 1
              /\ fn.out.result.status \in {"DETECTED", "CONFIRMED"}

\* C16 witness: the latest block holds a transaction of too small a value and
\* the block below it the payment, which is reported with 2 confirmations
C16_Witness ==
  /\ Scanned
  /\ fn.intent.asset.type = "native"
  /\ Len(fn.cl.blocks[fn.cl.blockNumber + 1]) > 0
  /\ PaidBlocks = {fn.cl.blockNumber - 1}
  /\ fn.out.result.txHash = "0xh1"
  /\ fn.out.result.confirmations = 2

\* the logs the client answers to the query of the scan
ReturnedLogs ==
  ClientGetLogs(fn.cl, buildErc20TransferLogQuery(
                         normalizeAddress(fn.intent.asset.contractAddress),
                         normalizeAddress(fn.intent.recipient),
                         WindowFloor, fn.cl.blockNumber))

\* the returned logs that are a transfer to the recipient of at least the amount
PayingLogs == {k \in 1..Len(ReturnedLogs) : Pays(ReturnedLogs[k].to, ReturnedLogs[k].value)}

\* C17: on the erc20 path a match is reported if and only if the returned
\* logs contain a transfer to the recipient of at least the amount; PENDING is
\* returned only when there is none; and the confirmations of a match are
\* L - matchBlock + 1 for a returned log that pays.
C17_Erc20MatchIffPayingLog ==
  (Scanned /\ fn.intent.asset.type = "erc20") =>
    /\ fn.out.result.status \in {"PENDING", "DETECTED", "CONFIRMED"}
    /\ fn.out.result.status = "PENDING" <=> PayingLogs = {}
    /\ fn.out.result.status # "PENDING" =>
         \E k \in PayingLogs :
           /\ fn.out.result.txHash = ReturnedLogs[k].transactionHash
           /\ fn.out.result.confirmations = fn.cl.blockNumber - ReturnedLogs[k].blockNumber + 1

\* C17 witness: the returned logs hold a transfer of too small a value before
\* the paying one, which is reported
C17_Witness ==
  /\ Scanned
  /\ fn.intent.asset.type = "erc20"
  /\ Len(ReturnedLogs) = 2
  /\ PayingLogs = {2}
  /\ fn.out.result.txHash = "0xh1"
  /\ fn.out.result.status = "CONFIRMED"

\* C18: verify answers the same status and the same confirmations for a chain
\* whatever the order in which the client lists the transactions of a block
\* or the logs of a getLogs response.
C18_OrderIndependent ==
  fn.op = "reordered" =>
    /\ fn.out.threw = fn.out2.threw
    /\ fn.out.result.status = fn.out2.result.status
    /\ fn.out.result.confirmations = fn.out2.result.confirmations

\* ------------------------------------------------------ creation and the store
\* C21: every intent a successful createIntent returns has status PENDING,
\* expiresAt > createdAt, an amount that is a positive integer, decimals >= 0,
\* minConfirmations >= 0 (DEFAULT_MIN_CONFIRMATIONS when the input gives
\* none), a contractAddress when the asset is erc20, and the chainId of the
\* adapter's network.
C21_CreatedIntentWellFormed ==
  (fn.op = "createIntent" /\ ~fn.out.threw) =>
    /\ fn.out.intent.status = "PENDING"
    /\ fn.out.intent.expiresAt > fn.out.intent.createdAt
    /\ fn.out.intent.amount \in DigitStrings /\ toBigInt(fn.out.intent.amount) > 0
    /\ fn.out.intent.asset.decimals # NaN /\ fn.out.intent.asset.decimals >= 0
    /\ fn.out.intent.asset.type = "erc20" => fn.out.intent.asset.contractAddress # Null
    /\ fn.out.intent.chainId = Caip2(adapter.expectedChainId)
    /\ fn.input.minConfirmations = NullInt =>
         fn.out.intent.confirmationPolicy.minConfirmations = DEFAULT_MIN_CONFIRMATIONS
    /\ fn.out.intent.confirmationPolicy.minConfirmations # NaN
    /\ fn.out.intent.confirmationPolicy.minConfirmations >= 0

\* C22: an intent returned by createIntent and stored with db.createIntent is
\* read back by getIntent equal field for field, with status PENDING and no
\* txHash, confirmations or lastCheckedAt; getIntent of an id that was never
\* created finds nothing.
C22_StoreRoundTrip ==
  fn.op = "stored" =>
    /\ fn.got.intent = fn.out.intent
    /\ fn.got.id = fn.out.intent.id
    /\ fn.got.status = "PENDING"
    /\ fn.got.txHash = Null
    /\ fn.got.confirmations = NullInt
    /\ fn.got.lastCheckedAt = NullInt
    /\ fn.missing = NoStored


\* ------------------------------------------------------ the audit trail
\* the fields a verification result brings into the event payload
VerificationFields == DOMAIN VR("PENDING", Null, NullInt, Null, Null)

\* the payload of the event the last call appended to the trail of intent 1
AppendedPayload == events[1][Len(events[1])].payload

\* C25: the event appended for a verification attempt records the next status
\* and the verification metadata and, beside them, the status the intent had
\* before the attempt and whether the attempt changed the status.
C25_EventRecordsAttempt ==
  (fn.op = "once" /\ Len(events[1]) > Len(fn.before.events[1])) =>
    /\ AppendedPayload.status = rows[1].status
    /\ AppendedPayload.txHash = rows[1].tx_hash
    /\ AppendedPayload.confirmations = rows[1].confirmations
    /\ \E f \in DOMAIN AppendedPayload \ VerificationFields :
         AppendedPayload[f] = fn.before.rows[1].status
    /\ \E f \in DOMAIN AppendedPayload \ VerificationFields :
         AppendedPayload[f] = fn.changed


\* ------------------------------------------------------ verify's first decision, health
\* C26: for an intent whose chainId is not the adapter's network, verify
\* returns FAILED with CHAIN_MISMATCH and makes no chain-client call, also when
\* the intent has expired.
C26_ChainMismatchFirst ==
  (fn.op = "verify" /\ fn.intent.chainId # Caip2(adapter.expectedChainId)) =>
    /\ ~fn.out.threw
    /\ fn.out.result.status = "FAILED"
    /\ fn.out.result.errorCode = "CHAIN_MISMATCH"
    /\ fn.out.calls = <<>>

\* C26 witness: verify of an expired intent of another network, through a
\* client that would have failed, returned FAILED / CHAIN_MISMATCH
C26_Witness ==
  /\ fn.op = "verify"
  /\ fn.intent.chainId # Caip2(adapter.expectedChainId)
  /\ fn.nowv >= fn.intent.expiresAt
  /\ fn.cl.chainIdErr
  /\ fn.out.result.status = "FAILED"
  /\ fn.out.result.errorCode = "CHAIN_MISMATCH"

\* C27: the health report has ok = true exactly when the store answered its
\* ping, the client answered the network-id query and the id is the expected
\* chain id; rpcConnected is false when the client is unreachable or on
\* another network.
C27_HealthOkIff ==
  fn.op = "health" =>
    /\ fn.health.ok <=> (/\ fn.dbPing = "ok"
                         /\ ~fn.cl.chainIdErr
                         /\ fn.cl.chainId = adapter.expectedChainId)
    /\ (fn.cl.chainIdErr \/ fn.cl.chainId # adapter.expectedChainId) =>
         ~fn.health.rpcConnected
    /\ fn.health.answered => (fn.health.code = 200 <=> fn.health.ok)

\* C27 witness: the store answered and the client did not, and the report is
\* not ok
C27_Witness ==
  /\ fn.op = "health"
  /\ fn.dbPing = "ok"
  /\ fn.cl.chainIdErr
  /\ fn.health.answered
  /\ fn.health.dbStatus
  /\ ~fn.health.ok
  /\ ~fn.health.rpcConnected


\* ------------------------------------------------------ the metadata merge
\* the call of fn was accepted on the store `before`: the id is known and the
\* target is the stored status or a legal move from it
StoreAccepted(before) ==
  /\ fn.id \in 1..Len(before)
  /\ \/ before[fn.id].status = fn.target
     \/ <<before[fn.id].status, fn.target>> \in TransitionTable

\* C28: an accepted updateIntentStatus stores the verification's txHash and
\* confirmations when it carries them and keeps the stored ones when it does
\* not, never resets a stored txHash to null, and sets lastCheckedAt, also
\* when the status stays as it was.
C28_MetadataMerge ==
  (fn.op = "once" /\ StoreAccepted(fn.before.rows)) =>
    /\ rows[fn.id].tx_hash =
         IF fn.meta[1] # Null THEN fn.meta[1] ELSE fn.before.rows[fn.id].tx_hash
    /\ rows[fn.id].confirmations =
         IF fn.meta[2] # NullInt THEN fn.meta[2] ELSE fn.before.rows[fn.id].confirmations
    /\ fn.before.rows[fn.id].tx_hash # Null => rows[fn.id].tx_hash # Null
    /\ rows[fn.id].last_checked_at = now
    /\ rows[fn.id].last_checked_at # NullInt

\* C28 witness: a same-status call without metadata on an intent with a
\* recorded transaction kept the transaction and set lastCheckedAt
C28_Witness ==
  /\ fn.op = "once"
  /\ StoreAccepted(fn.before.rows)
  /\ fn.before.rows[fn.id].status = fn.target
  /\ fn.meta[1] = Null
  /\ fn.before.rows[fn.id].tx_hash = "0xh1"
  /\ rows[fn.id].tx_hash = "0xh1"
  /\ fn.before.rows[fn.id].last_checked_at = NullInt
  /\ rows[fn.id].last_checked_at = now


\* ------------------------------------------------------ native matching and the scan loop
\* verify was applied to a non-expired native intent and to its twin on the
\* adapter's chain through a client on Arbitrum Sepolia that answers every
\* call, so both scans ran
TwinScanned ==
  /\ fn.op = "twin"
  /\ fn.intent.asset.type = "native"
  /\ fn.intent.chainId = Caip2(adapter.expectedChainId)
  /\ fn.nowv < fn.intent.expiresAt
  /\ fn.cl.chainId = DEFAULT_ARBITRUM_SEPOLIA_CHAIN_ID
  /\ ~fn.cl.chainIdErr /\ ~fn.cl.blockNumberErr /\ fn.cl.blockErr = {}

\* the transactions to the intent's recipient in the blocks of the window, as
\* <<hash, value>>
WindowTransfers ==
  UNION {{<<fn.cl.blocks[b + 1][k].hash, fn.cl.blocks[b + 1][k].value>> :
            k \in {j \in 1..Len(fn.cl.blocks[b + 1]) :
                     /\ fn.cl.blocks[b + 1][j].to # Null
                     /\ normalizeAddress(fn.cl.blocks[b + 1][j].to) =
                          normalizeAddress(fn.intent.recipient)}} :
         b \in WindowFloor..fn.cl.blockNumber}

\* C29: native matching does not look at the intent's identity. Two
\* non-expired intents for the same recipient and amount get the same result
\* from the same chain, and when the window holds one transaction to the
\* recipient, of value v, that transaction is the match reported for every
\* intent of an amount <= v: one payment confirms both.
C29_NativeMatchNotBound ==
  TwinScanned =>
    /\ fn.twin.id # fn.intent.id /\ fn.twin.reference # fn.intent.reference
    /\ fn.twin.amount = fn.intent.amount =>
         (fn.out2.threw = fn.out.threw /\ fn.out2.result = fn.out.result)
    /\ \A t \in WindowTransfers :
         WindowTransfers = {t} =>
           /\ toBigInt(fn.intent.amount) <= t[2] =>
                (~fn.out.threw /\ fn.out.result.txHash = t[1])
           /\ toBigInt(fn.twin.amount) <= t[2] =>
                (~fn.out2.threw /\ fn.out2.result.txHash = t[1])
           /\ (toBigInt(fn.intent.amount) <= t[2] /\ toBigInt(fn.twin.amount) <= t[2]) =>
                fn.out2.result = fn.out.result

\* C29 witness: one transaction of value 2 confirmed an intent of amount 2 and
\* another intent, with its own reference, of amount 1
C29_Witness ==
  /\ TwinScanned
  /\ WindowTransfers = {<<"0xh1", 2>>}
  /\ fn.twin.amount = "1"
  /\ fn.out.result.status = "CONFIRMED"
  /\ fn.out2.result.status = "CONFIRMED"
  /\ fn.out.result.txHash = "0xh1"
  /\ fn.out2.result.txHash = "0xh1"

\* the getBlock calls of verify, by their place among its calls
BlockCalls == {k \in 1..Len(fn.out.calls) : fn.out.calls[k].op = "getBlock"}

\* min(L, scanBlocks) + 1
MaxBlocksFetched ==
  (IF fn.cl.blockNumber < adapter.scanBlocks THEN fn.cl.blockNumber ELSE adapter.scanBlocks) + 1

\* C30: the native scan ends after at most min(L, scanBlocks) + 1 getBlock
\* calls, none for a negative block number, none for a block fetched before,
\* and none after a block that holds a qualifying transaction was answered.
C30_NativeScanBounded ==
  (fn.op = "verify" /\ fn.intent.asset.type = "native") =>
    /\ Cardinality(BlockCalls) <= MaxBlocksFetched
    /\ \A k \in BlockCalls : fn.out.calls[k].from >= 0
    /\ \A k1, k2 \in BlockCalls : k1 # k2 => fn.out.calls[k1].from # fn.out.calls[k2].from
    /\ \A k \in BlockCalls :
         (/\ fn.out.calls[k].from \notin fn.cl.blockErr
          /\ PaymentsIn(fn.out.calls[k].from, fn.out.calls[k].from) # {}) =>
           k = Len(fn.out.calls)

\* C30 witness: on a chain whose latest block is 0, scanned with a depth
\* beyond it, the scan fetched block 0 once and found the payment
C30_Witness ==
  /\ fn.op = "verify"
  /\ fn.intent.asset.type = "native"
  /\ fn.cl.blockNumber = 0
  /\ adapter.scanBlocks > fn.cl.blockNumber
  /\ Cardinality(BlockCalls) = 1
  /\ \A k \in BlockCalls : fn.out.calls[k].from = 0
  /\ fn.out.result.txHash = "0xh1"


\* ------------------------------------------------------ failures, sweeps and silent clients
\* sweep s starts a verification of its own in this step: its verifyIntent
\* call found no running task and created one, which reads the intent and
\* calls adapter.verify
SweepStartsVerification(s) ==
  /\ sweeps[s].state = "ready"
  /\ sweeps'[s].state = "waiting"
  /\ nextTask' = nextTask + 1

\* C23 (first part): an intent stored as FAILED stays FAILED and is not among
\* the intents listPendingIntents returns
FailedIsFinal ==
  \A i \in 1..Len(rows) :
    rows[i].status = "FAILED" => (rows'[i].status = "FAILED" /\ i \notin PendingIds(rows'))

\* C23: a persisted FAILED is final and leaves the pending list for good, and
\* a sweep starts a verification only for an intent whose stored status is
\* PENDING or DETECTED when the verification starts.
C23_FailuresFinalNotRetried ==
  [][/\ FailedIsFinal
     /\ \A s \in SweepIds :
          SweepStartsVerification(s) =>
            rows[sweeps[s].batch[sweeps[s].idx]].status \in {"PENDING", "DETECTED"}]_vars

\* sweep s awaits the verification of intent i
SweepAwaits(s, i) ==
  /\ sweeps[s].state = "waiting"
  /\ sweeps[s].batch[sweeps[s].idx] = i

\* C24: a client call that never answers does not hang the sweep: a sweep that
\* awaits the verification of an intent resumes, and by then the lock of that
\* intent has been released.
C24_SilentClientCannotHangSweep ==
  \A s \in SweepIds, i \in 1..2 :
    SweepAwaits(s, i) ~> (~SweepAwaits(s, i) /\ i \notin DOMAIN verificationLocks)


\* ------------------------------------------------------ a verification that throws
\* the last event of intent i after the step
LastEventAfter(i) == events'[i][Len(events'[i])]

\* the sweep s awaited a verification that threw, and its catch block ran
SweepCaught(s) == sweeps[s].state = "waiting" /\ sweeps'[s].verifyError

C32_ConfirmedRecordComplete ==
  \A i \in 1..Len(rows) :
    rows[i].status = "CONFIRMED" =>
      /\ rows[i].tx_hash # Null
      /\ rows[i].confirmations # NullInt
      /\ rows[i].confirmations >= rows[i].json.confirmationPolicy.minConfirmations

\* ------------------------------------------------------ the status a caller is told
\* C33: the status in the result that an on-demand verification returns, to
\* its starter and to every caller that joined it, is the status stored for
\* the intent right after that verification's store update, whatever status
\* the engine's own result carried.
C33_ReturnedStatusIsPersisted ==
  [][\A c \in DOMAIN responses' :
       responses'[c].kind = "200" =>
         /\ getIntent(rows', responses'[c].intentId) # NoStored
         /\ responses'[c].result.status = rows'[responses'[c].intentId].status]_vars

\* C33 witness: a CONFIRMED intent was verified after its expiry, the engine
\* answered EXPIRED, and the caller was told CONFIRMED
C33_Witness ==
  \E c \in DOMAIN responses :
    /\ responses[c].kind = "200"
    /\ responses[c].result.status = "CONFIRMED"
    /\ responses[c].result.errorCode = "EXPIRED_ERROR"
    /\ rows[responses[c].intentId].status = "CONFIRMED"

\* ------------------------------------------------------ every intent ends
\* the sweep s resumes from a verification of intent i that read the clock at
\* or after the intent's expiry
SweepVerifiedExpired(s, i) ==
  /\ sweeps[s].state = "waiting"
  /\ sweeps'[s].state # "waiting"
  /\ sweeps[s].batch[sweeps[s].idx] = i
  /\ isIntentExpired(rows[i].json, tasks[sweeps[s].task].now)

Terminal(i) == Includes(terminalStatuses, rows[i].status) /\ i \notin PendingIds(rows)

\* C34: with the timer firing, time passing, every client call answered and a
\* store that does not fail, every stored intent ends in a terminal status and
\* stays out of the pending list from then on; the first sweep whose
\* verification of the intent reads the clock at or after expiresAt leaves it
\* terminal, EXPIRED if it was not terminal yet.
C34_EveryIntentEnds ==
  /\ [][\A s \in SweepIds, i \in 1..Len(rows) :
          SweepVerifiedExpired(s, i) =>
            /\ Includes(terminalStatuses, rows'[i].status)
            /\ ~Includes(terminalStatuses, rows[i].status) => rows'[i].status = "EXPIRED"]_vars
  /\ <>[](\A i \in 1..Len(rows) : Terminal(i))

\* C34 witness: a sweep has taken an intent that was DETECTED at its expiry to
\* EXPIRED, and the other intent is terminal as well
C34_Witness ==
  /\ now >= MaxTime
  /\ \A i \in 1..Len(rows) : Terminal(i)
  /\ \E i \in 1..Len(rows) :
       /\ rows[i].status = "EXPIRED"
       /\ rows[i].tx_hash # Null
  /\ \A s \in SweepIds : sweeps[s].state = "idle"

\* ------------------------------------------------------ the in-flight table
\* the intents whose verification is running
Running == {tasks[t].intentId : t \in DOMAIN tasks}

\* C35: the in-flight table holds an entry for an intent exactly while a
\* verification of that intent is running, the entry being that verification:
\* when the task has returned or thrown the entry is gone, and a trigger that
\* arrives afterwards starts a fresh verification.
C35_LockNeverLeaks ==
  /\ [](/\ DOMAIN verificationLocks = Running
        /\ \A i \in DOMAIN verificationLocks :
             /\ verificationLocks[i] \in DOMAIN tasks
             /\ tasks[verificationLocks[i]].intentId = i)
  /\ [][\A t \in DOMAIN tasks :
          t \notin DOMAIN tasks' =>
            /\ tasks[t].intentId \notin DOMAIN verificationLocks'
            /\ \A c \in CallIds : calls'[c].task # t \/ calls'[c].state # "waiting"]_vars
  /\ [][\A c \in CallIds :
          (/\ calls[c].state = "idle"
           /\ calls'[c].state = "waiting"
           /\ calls'[c].intentId \notin DOMAIN verificationLocks) =>
            /\ calls'[c].task \notin DOMAIN tasks
            /\ calls'[c].task \in DOMAIN tasks'
            /\ tasks'[calls'[c].task].now = now
            /\ verificationLocks'[calls'[c].intentId] = calls'[c].task]_vars

\* C35 witness: a second verification of an intent is running for a request
\* that arrived after the first one had thrown
C35_Witness ==
  \E c \in CallIds :
    /\ calls[c].state = "waiting"
    /\ calls[c].task = 2
    /\ verificationLocks = Put(<<>>, calls[c].intentId, 2)
    /\ DOMAIN tasks = {2}
    /\ Len(rows) = 1
    /\ Len(events[calls[c].intentId]) = 1

\* ------------------------------------------------------ how an intent expires
\* the verification t of intent i ends in this step, having read the clock at
\* or after the intent's expiry
ExpiredVerificationEnds(t, i) ==
  /\ t \in DOMAIN tasks
  /\ t \notin DOMAIN tasks'
  /\ tasks[t].intentId = i
  /\ rows[i].json.expiresAt <= tasks[t].now

\* C36: a stored status becomes EXPIRED only in the step that ends a
\* verification of the intent whose clock read was at or after expiresAt, so
\* no stored intent is EXPIRED before its expiry; and such a verification of
\* a DETECTED intent stores EXPIRED whatever the chain now shows.
C36_ExpiredOnlyByLateVerification ==
  /\ [](\A i \in 1..Len(rows) : rows[i].status = "EXPIRED" => rows[i].json.expiresAt <= now)
  /\ [][\A i \in 1..Len(rows) :
          /\ (rows[i].status # "EXPIRED" /\ rows'[i].status = "EXPIRED") =>
               \E t \in DOMAIN tasks : ExpiredVerificationEnds(t, i)
          /\ \A t \in DOMAIN tasks :
               (ExpiredVerificationEnds(t, i) /\ rows[i].status = "DETECTED") =>
                 rows'[i].status = "EXPIRED"]_vars

\* C36 witness: an intent whose payment had been detected is EXPIRED, its last
\* two events being the detection and the expiry
C36_Witness ==
  \E i \in 1..Len(rows) :
    /\ rows[i].status = "EXPIRED"
    /\ Len(events[i]) >= 3
    /\ events[i][Len(events[i])].payload.status = "EXPIRED"
    /\ events[i][Len(events[i]) - 1].payload.status = "DETECTED"

\* ------------------------------------------------------ the event log
\* q continues p: p is a prefix of q
Continues(p, q) == Len(q) >= Len(p) /\ SubSeq(q, 1, Len(p)) = p

ReturnedResults ==
  (IF fn.op \in {"verify", "reordered", "twin"} /\ ~fn.out.threw THEN {fn.out.result} ELSE {})
    \cup (IF fn.op \in {"reordered", "twin"} /\ ~fn.out2.threw THEN {fn.out2.result} ELSE {})

\* C38: in every result verify returns, txHash and confirmations are present
\* exactly when the status is DETECTED or CONFIRMED and confirmations is then
\* at least 1; errorCode is CONFIRMATION_PENDING exactly when the status is
\* DETECTED and EXPIRED_ERROR exactly when it is EXPIRED; a FAILED result
\* carries an errorCode.
C38_ResultShape ==
  \A r \in ReturnedResults :
    /\ r.txHash # Null <=> r.status \in {"DETECTED", "CONFIRMED"}
    /\ r.confirmations # NullInt <=> r.status \in {"DETECTED", "CONFIRMED"}
    /\ r.status \in {"DETECTED", "CONFIRMED"} => r.confirmations >= 1
    /\ r.errorCode = "CONFIRMATION_PENDING" <=> r.status = "DETECTED"
    /\ r.errorCode = "EXPIRED_ERROR" <=> r.status = "EXPIRED"
    /\ r.status = "FAILED" => r.errorCode # Null

\* C38 witness: verify returned DETECTED for a token transfer with one
\* confirmation
C38_Witness ==
  /\ fn.op = "verify"
  /\ fn.intent.asset.type = "erc20"
  /\ ~fn.out.threw
  /\ fn.out.result.status = "DETECTED"
  /\ fn.out.result.confirmations = 1
  /\ fn.out.result.errorCode = "CONFIRMATION_PENDING"
====
